---- MODULE Spec2Model ----
(***************************************************************************)
(* Property manager API: the validator (ValidationService), the weather    *)
(* adapter (WeatherstackService) and the property service (PropertyService)*)
(* over a relational store.                                                *)
(*                                                                         *)
(* A string the program inspects is a sequence of one-character strings;   *)
(* a missing (undefined) value is the token Undefined, which is no string. *)
(* A message is a text: a sequence of pieces (literals and characters)     *)
(* whose concatenation is the message.                                     *)
(***************************************************************************)
EXTENDS Integers, Sequences, FiniteSets, TLC

VARIABLES
  apiKey,      \* WeatherstackService.apiKey, fixed at construction
  store,       \* the Property table: a set of rows
  nextId,      \* number of identifiers the table has handed out
  clock,       \* the wall clock, in ticks
  returned,    \* history: the records createProperty returned, not deleted since
  last,        \* observation of the call that completed last
  orig,        \* validator harness: the submission as first given
  sub,         \* validator harness: the submission at hand
  prev,        \* validator harness: the submission before the last sanitizeInput
  applied,     \* validator harness: the operations applied so far
  verdict,     \* validator harness: the last validatePropertyInput result
  session      \* the resolver call of each client: in flight, or its outcome

vars == <<apiKey, store, nextId, clock, returned, last,
          orig, sub, prev, applied, verdict, session>>

serviceVars == <<apiKey, store, nextId, clock, returned, last>>
harnessVars == <<orig, sub, prev, applied, verdict>>

Undefined == <<"undefined">>

(***************************************************************************)
(* String primitives of the language runtime.                              *)
(***************************************************************************)
WhiteSpace == {" ", "\t"}

LowerLetters ==
  <<"a","b","c","d","e","f","g","h","i","j","k","l","m",
    "n","o","p","q","r","s","t","u","v","w","x","y","z">>

UpperLetters ==
  <<"A","B","C","D","E","F","G","H","I","J","K","L","M",
    "N","O","P","Q","R","S","T","U","V","W","X","Y","Z">>

DigitChars == <<"0", "1", "2", "3", "4", "5", "6", "7", "8", "9">>

IndexIn(seq, c) == IF \E i \in 1..Len(seq) : seq[i] = c
                   THEN CHOOSE i \in 1..Len(seq) : seq[i] = c ELSE 0

UpperChar(c) == IF IndexIn(LowerLetters, c) > 0
                THEN UpperLetters[IndexIn(LowerLetters, c)] ELSE c

LowerChar(c) == IF IndexIn(UpperLetters, c) > 0
                THEN LowerLetters[IndexIn(UpperLetters, c)] ELSE c

\* c.charCodeAt(0), for the ASCII characters the model uses
CharCode(c) ==
  CASE IndexIn(LowerLetters, c) > 0 -> 96 + IndexIn(LowerLetters, c)
    [] IndexIn(UpperLetters, c) > 0 -> 64 + IndexIn(UpperLetters, c)
    [] IndexIn(DigitChars, c) > 0 -> 47 + IndexIn(DigitChars, c)
    [] c = " " -> 32
    [] c = "\t" -> 9
    [] c = "," -> 44
    [] c = "-" -> 45
    [] c = "." -> 46

toUpperCase(s) == [i \in 1..Len(s) |-> UpperChar(s[i])]

toLowerCase(s) == [i \in 1..Len(s) |-> LowerChar(s[i])]

RECURSIVE trimStart(_)
trimStart(s) ==
  IF s # <<>> /\ Head(s) \in WhiteSpace THEN trimStart(Tail(s)) ELSE s

RECURSIVE trimEnd(_)
trimEnd(s) ==
  IF s # <<>> /\ s[Len(s)] \in WhiteSpace
  THEN trimEnd(SubSeq(s, 1, Len(s) - 1)) ELSE s

trim(s) == trimEnd(trimStart(s))

\* a literal as a text
Text(literal) == <<literal>>

\* !x for a string-or-undefined value
Falsy(x) == x = Undefined \/ x = <<>>

\* x || d
OrElse(x, d) == IF Falsy(x) THEN d ELSE x

\* x?.trim() and x?.toUpperCase()
OptTrim(x) == IF x = Undefined THEN Undefined ELSE trim(x)
OptUpper(x) == IF x = Undefined THEN Undefined ELSE toUpperCase(x)

\* errors.join(sep)
RECURSIVE join(_, _)
join(errors, sep) ==
  IF errors = <<>> THEN <<>>
  ELSE IF Len(errors) = 1 THEN <<errors[1]>>
  ELSE <<errors[1], sep>> \o join(Tail(errors), sep)

(***************************************************************************)
(* ValidationService                                                       *)
(***************************************************************************)
US_STATES ==
  { <<"A","L">>, <<"A","K">>, <<"A","Z">>, <<"A","R">>, <<"C","A">>, <<"C","O">>,
    <<"C","T">>, <<"D","E">>, <<"F","L">>, <<"G","A">>, <<"H","I">>, <<"I","D">>,
    <<"I","L">>, <<"I","N">>, <<"I","A">>, <<"K","S">>, <<"K","Y">>, <<"L","A">>,
    <<"M","E">>, <<"M","D">>, <<"M","A">>, <<"M","I">>, <<"M","N">>, <<"M","S">>,
    <<"M","O">>, <<"M","T">>, <<"N","E">>, <<"N","V">>, <<"N","H">>, <<"N","J">>,
    <<"N","M">>, <<"N","Y">>, <<"N","C">>, <<"N","D">>, <<"O","H">>, <<"O","K">>,
    <<"O","R">>, <<"P","A">>, <<"R","I">>, <<"S","C">>, <<"S","D">>, <<"T","N">>,
    <<"T","X">>, <<"U","T">>, <<"V","T">>, <<"V","A">>, <<"W","A">>, <<"W","V">>,
    <<"W","I">>, <<"W","Y">>, <<"D","C">>, <<"P","R">>, <<"G","U">>, <<"V","I">>,
    <<"A","S">>, <<"M","P">> }

ZipLen == 5

CityRequired == "City is required"
StreetRequired == "Street is required"
StateRequired == "Valid US state abbreviation is required (e.g., CA, NY, TX)"
ZipRequired == "Valid 5-digit zip code is required"

\* /^\d{5}$/.test(z)
ZipRegexTest(z) == Len(z) = ZipLen /\ \A i \in 1..Len(z) : IndexIn(DigitChars, z[i]) > 0

validatePropertyInput_shortCircuit(input) ==
  LET e1 == IF Falsy(input.city) \/ Len(trim(input.city)) = 0
            THEN <<CityRequired>> ELSE <<>>
      e2 == IF e1 = <<>> /\ (Falsy(input.street) \/ Len(trim(input.street)) = 0)
            THEN <<StreetRequired>> ELSE <<>>
      e3 == IF e1 \o e2 = <<>> /\ (Falsy(input.state) \/ input.state \notin US_STATES)
            THEN <<StateRequired>> ELSE <<>>
      e4 == IF e1 \o e2 \o e3 = <<>>
               /\ (Falsy(input.zipCode) \/ ~ZipRegexTest(input.zipCode))
            THEN <<ZipRequired>> ELSE <<>>
      errors == e1 \o e2 \o e3 \o e4
  IN [isValid |-> Len(errors) = 0, errors |-> errors]

\* the rule on the city left out
validatePropertyInput_noCityRule(input) ==
  LET e2 == IF Falsy(input.street) \/ Len(trim(input.street)) = 0
            THEN <<StreetRequired>> ELSE <<>>
      e3 == IF Falsy(input.state) \/ input.state \notin US_STATES
            THEN <<StateRequired>> ELSE <<>>
      e4 == IF Falsy(input.zipCode) \/ ~ZipRegexTest(input.zipCode)
            THEN <<ZipRequired>> ELSE <<>>
      errors == e2 \o e3 \o e4
  IN [isValid |-> Len(errors) = 0, errors |-> errors]

validatePropertyInput(input) ==
  LET e1 == IF Falsy(input.city) \/ Len(trim(input.city)) = 0
            THEN <<CityRequired>> ELSE <<>>
      e2 == IF Falsy(input.street) \/ Len(trim(input.street)) = 0
            THEN <<StreetRequired>> ELSE <<>>
      e3 == IF Falsy(input.state) \/ input.state \notin US_STATES
            THEN <<StateRequired>> ELSE <<>>
      e4 == IF Falsy(input.zipCode) \/ ~ZipRegexTest(input.zipCode)
            THEN <<ZipRequired>> ELSE <<>>
      errors == e1 \o e2 \o e3 \o e4
  IN [isValid |-> Len(errors) = 0, errors |-> errors]

\* strips one whitespace character from each end instead of all of them
trimOnce(x) ==
  LET l == IF x # <<>> /\ Head(x) \in WhiteSpace THEN Tail(x) ELSE x
  IN IF l # <<>> /\ l[Len(l)] \in WhiteSpace THEN SubSeq(l, 1, Len(l) - 1) ELSE l

sanitizeInput_trimOnce(input) ==
  [city    |-> OrElse(IF input.city = Undefined THEN Undefined
                      ELSE trimOnce(input.city), <<>>),
   street  |-> OrElse(IF input.street = Undefined THEN Undefined
                      ELSE trimOnce(input.street), <<>>),
   state   |-> OrElse(IF input.state = Undefined THEN Undefined
                      ELSE trimOnce(toUpperCase(input.state)), <<>>),
   zipCode |-> OrElse(IF input.zipCode = Undefined THEN Undefined
                      ELSE trimOnce(input.zipCode), <<>>)]

sanitizeInput_noUpper(input) ==
  [city    |-> OrElse(OptTrim(input.city), <<>>),
   street  |-> OrElse(OptTrim(input.street), <<>>),
   state   |-> OrElse(OptTrim(input.state), <<>>),
   zipCode |-> OrElse(OptTrim(input.zipCode), <<>>)]

sanitizeInput(input) ==
  [city    |-> OrElse(OptTrim(input.city), <<>>),
   street  |-> OrElse(OptTrim(input.street), <<>>),
   state   |-> OrElse(OptTrim(OptUpper(input.state)), <<>>),
   zipCode |-> OrElse(OptTrim(input.zipCode), <<>>)]

(***************************************************************************)
(* Numbers. A double is NaN, an infinity, or a finite value held in        *)
(* thousandths (the coordinates of this program have three decimals).      *)
(***************************************************************************)
NaN == [kind |-> "NaN", milli |-> 0]
PosInfinity == [kind |-> "Infinity", milli |-> 0]
NegInfinity == [kind |-> "-Infinity", milli |-> 0]
Finite(m) == [kind |-> "finite", milli |-> m]

isNaN(n) == n.kind = "NaN"

Abs(n) == IF n < 0 THEN -n ELSE n

\* a % b of the language for b > 0: the sign follows the dividend
JsRem(a, b) == IF a < 0 THEN -((b - (a % b)) % b) ELSE a % b

\* 32-bit integers as two 16-bit halves, so that no intermediate value
\* leaves the range of the checker's integers
Half == 65536
HiHalf(a) == (a \div Half) % Half
LoHalf(a) == a % Half
FromHalves(hi, lo) == IF hi >= 32768 THEN (hi - Half) * Half + lo ELSE hi * Half + lo

\* ToInt32(a << 5)
Shl5(a) ==
  LET lo == LoHalf(a) * 32
      hi == HiHalf(a) * 32 + (lo \div Half)
  IN FromHalves(hi % Half, lo % Half)

\* ToInt32(x - a + c), the value of ((a << 5) - a + c) & itself, with x = a << 5
SubAddInt32(x, a, c) ==
  LET lo == LoHalf(x) - LoHalf(a) + c
      hi == HiHalf(x) - HiHalf(a) + (lo \div Half)
  IN FromHalves(hi % Half, lo % Half)

DigitValue(c) == IndexIn(DigitChars, c) - 1

IsDigit(c) == IndexIn(DigitChars, c) > 0

RECURSIVE DigitRun(_)
DigitRun(s) ==
  IF s # <<>> /\ IsDigit(Head(s)) THEN <<Head(s)>> \o DigitRun(Tail(s)) ELSE <<>>

RECURSIVE DigitsValue(_)
DigitsValue(ds) ==
  IF ds = <<>> THEN 0
  ELSE 10 * DigitsValue(SubSeq(ds, 1, Len(ds) - 1)) + DigitValue(ds[Len(ds)])

\* the first three fraction digits as thousandths
FractionMilli(ds) ==
  LET d(i) == IF i <= Len(ds) THEN DigitValue(ds[i]) ELSE 0
  IN 100 * d(1) + 10 * d(2) + d(3)

HasPrefix(s, p) == Len(s) >= Len(p) /\ SubSeq(s, 1, Len(p)) = p

InfinityWord == <<"I","n","f","i","n","i","t","y">>

\* parseFloat(x): leading white space skipped, an optional sign, then
\* "Infinity" or the longest decimal prefix; anything else is NaN.
\* (Exponents are not modelled; fraction digits past the third are dropped.)
parseFloat(x) ==
  IF x = Undefined THEN NaN
  ELSE
    LET t == trimStart(x)
        signed == t # <<>> /\ Head(t) \in {"+", "-"}
        neg == t # <<>> /\ Head(t) = "-"
        u == IF signed THEN Tail(t) ELSE t
        ip == DigitRun(u)
        afterInt == SubSeq(u, Len(ip) + 1, Len(u))
        hasDot == afterInt # <<>> /\ Head(afterInt) = "."
        fp == IF hasDot THEN DigitRun(Tail(afterInt)) ELSE <<>>
        mag == 1000 * DigitsValue(ip) + FractionMilli(fp)
    IN IF HasPrefix(u, InfinityWord) THEN (IF neg THEN NegInfinity ELSE PosInfinity)
       ELSE IF ip = <<>> /\ fp = <<>> THEN NaN
       ELSE Finite(IF neg THEN -mag ELSE mag)

RECURSIVE NatToChars(_)
NatToChars(n) ==
  IF n < 10 THEN <<DigitChars[n + 1]>>
  ELSE NatToChars(n \div 10) \o <<DigitChars[(n % 10) + 1]>>

\* the fraction digits of a value in thousandths, trailing zeros dropped
FractionChars(f) ==
  IF f = 0 THEN <<>>
  ELSE IF f % 100 = 0 THEN <<".", DigitChars[(f \div 100) + 1]>>
  ELSE IF f % 10 = 0
       THEN <<".", DigitChars[(f \div 100) + 1], DigitChars[((f \div 10) % 10) + 1]>>
  ELSE <<".", DigitChars[(f \div 100) + 1], DigitChars[((f \div 10) % 10) + 1],
         DigitChars[(f % 10) + 1]>>

\* the number written with a hemisphere letter in place of its sign
numberToString_hemisphere(m) ==
  (IF m < 0 THEN <<"W", " ">> ELSE <<"N", " ">>)
  \o NatToChars(Abs(m) \div 1000) \o FractionChars(Abs(m) % 1000)

\* n.toString() for a finite number held in thousandths
numberToString(m) ==
  (IF m < 0 THEN <<"-">> ELSE <<>>)
  \o NatToChars(Abs(m) \div 1000) \o FractionChars(Abs(m) % 1000)

(***************************************************************************)
(* Optional values, thrown values and HTTP outcomes.                       *)
(***************************************************************************)
None == <<>>
Some(v) == <<v>>

\* new Error(message)
Error(message) ==
  [isError |-> TRUE, isAxios |-> FALSE, code |-> "", status |-> 0, message |-> message]

\* an axios error: code, and the HTTP status of error.response (0: no response)
AxiosError(code, status, message) ==
  [isError |-> TRUE, isAxios |-> TRUE, code |-> code, status |-> status,
   message |-> message]

NoBody == [error |-> None, success |-> None, request |-> None, location |-> None,
           current |-> None]

HttpResponse(data) == [kind |-> "response", data |-> data, thrown |-> Error(<<>>)]
HttpThrow(e) == [kind |-> "throw", data |-> NoBody, thrown |-> e]

Return(v) == [threw |-> FALSE, value |-> v, error |-> Error(<<>>)]
Throw(e) == [threw |-> TRUE, value |-> NoBody, error |-> e]

(***************************************************************************)
(* WeatherstackService                                                     *)
(***************************************************************************)
\* `${city}, ${state} ${zipCode}`
QueryOf(city, state, zipCode) == city \o <<", ">> \o state \o <<" ">> \o zipCode

\* the reduce over the characters: a = (a << 5) - a + b.charCodeAt(0); a & a
RECURSIVE HashFrom(_, _, _)
HashFrom(chars, i, a) ==
  IF i > Len(chars) THEN a
  ELSE CHOOSE h \in {HashFrom(chars, i + 1, next) :
                       next \in {SubAddInt32(Shl5(a), a, CharCode(chars[i]))}} : TRUE

\* the hash used with its sign, without Math.abs
generateCoordinates_noAbs(city, state) ==
  LET hash == HashFrom(toLowerCase(city), 1, 0)
      lat == 24 * 1000 + JsRem(hash, 25000)
      long == -125 * 1000 + JsRem(hash, 59000)
  IN [lat |-> lat, long |-> long]

\* coordinates in thousandths; Math.round(x * 1000) / 1000 leaves a value
\* that already has three decimals as it is
generateCoordinates(city, state) ==
  LET hash == HashFrom(toLowerCase(city), 1, 0)
      lat == 24 * 1000 + Abs(JsRem(hash, 25000))
      long == -125 * 1000 + Abs(JsRem(hash, 59000))
  IN [lat |-> lat, long |-> long]

getTimezone(state) ==
  CASE state = <<"C","A">> -> "America/Los_Angeles"
    [] state = <<"N","Y">> -> "America/New_York"
    [] state = <<"F","L">> -> "America/New_York"
    [] state = <<"T","X">> -> "America/Chicago"
    [] state = <<"I","L">> -> "America/Chicago"
    [] state = <<"A","Z">> -> "America/Phoenix"
    [] OTHER -> "America/New_York"

getUtcOffset(state) ==
  CASE state = <<"C","A">> -> "-8.0"
    [] state = <<"N","Y">> -> "-5.0"
    [] state = <<"F","L">> -> "-5.0"
    [] state = <<"T","X">> -> "-6.0"
    [] state = <<"I","L">> -> "-6.0"
    [] state = <<"A","Z">> -> "-7.0"
    [] OTHER -> "-5.0"

\* Math.floor(Math.random() * n), the draw u given in thousandths
FloorRandom(u, n) == (u * n) \div 1000

\* rnd: one Math.random() draw per randomized field; now: the clock reading
\* (the formatting of the reading into localtime strings is not modelled)
getMockWeatherData(city, state, zipCode, rnd, now) ==
  LET coordinates == generateCoordinates(city, state)
  IN [error |-> None, success |-> None,
      request |-> Some([type |-> "City", query |-> QueryOf(city, state, zipCode),
                        language |-> "en", unit |-> "m"]),
      location |-> Some([name |-> city, country |-> "United States of America",
                         region |-> state,
                         lat |-> numberToString(coordinates.lat),
                         lon |-> numberToString(coordinates.long),
                         timezone_id |-> getTimezone(state),
                         localtime |-> now, localtime_epoch |-> now,
                         utc_offset |-> getUtcOffset(state)]),
      current |-> Some([observation_time |-> now,
                        temperature |-> FloorRandom(rnd.temperature, 30) + 10,
                        weather_code |-> 113,
                        weather_icons |-> <<"wsymbol_0001_sunny.png">>,
                        weather_descriptions |-> <<"Sunny">>,
                        wind_speed |-> FloorRandom(rnd.wind_speed, 20) + 5,
                        wind_degree |-> FloorRandom(rnd.wind_degree, 360),
                        wind_dir |-> "SW", pressure |-> 1013, precip |-> 0,
                        humidity |-> FloorRandom(rnd.humidity, 50) + 30,
                        cloudcover |-> FloorRandom(rnd.cloudcover, 30),
                        feelslike |-> FloorRandom(rnd.feelslike, 30) + 10,
                        uv_index |-> FloorRandom(rnd.uv_index, 10),
                        visibility |-> 10, is_day |-> "yes"])]

\* the switch on response.data.error.code
ProviderErrorMessage(code, info, query) ==
  CASE code = 101 -> Text("Invalid Weatherstack API key")
    [] code = 429 -> Text("API request limit reached for this month")
    [] code = 601 -> Text("Invalid location: ") \o query
    [] code = 615 -> Text("Weatherstack API request failed")
    [] OTHER -> Text("Weatherstack API error (") \o NatToChars(code)
                  \o Text("): ") \o info

\* the section checks placed before the check of the error object
LiveTry_sectionsFirst(query, http) ==
  IF http.kind = "throw" THEN Throw(http.thrown)
  ELSE LET data == http.data
       IN IF data.current = None
          THEN Throw(Error(Text("No current weather data returned from Weatherstack API")))
          ELSE IF data.location = None
          THEN Throw(Error(Text("No location data returned from Weatherstack API")))
          ELSE IF data.error # None
          THEN Throw(Error(ProviderErrorMessage(data.error[1].code,
                                                data.error[1].info, query)))
          ELSE IF data.success = Some(FALSE)
          THEN Throw(Error(Text("Weatherstack API returned unsuccessful response")))
          ELSE Return(data)

\* the check of the location section left out
LiveTry_noLocationCheck(query, http) ==
  IF http.kind = "throw" THEN Throw(http.thrown)
  ELSE LET data == http.data
       IN IF data.error # None
          THEN Throw(Error(ProviderErrorMessage(data.error[1].code,
                                                data.error[1].info, query)))
          ELSE IF data.success = Some(FALSE)
          THEN Throw(Error(Text("Weatherstack API returned unsuccessful response")))
          ELSE IF data.current = None
          THEN Throw(Error(Text("No current weather data returned from Weatherstack API")))
          ELSE Return(data)

\* the try block of the live lookup, given the outcome of axios.get
LiveTry(query, http) ==
  IF http.kind = "throw" THEN Throw(http.thrown)
  ELSE LET data == http.data
       IN IF data.error # None
          THEN Throw(Error(ProviderErrorMessage(data.error[1].code,
                                                data.error[1].info, query)))
          ELSE IF data.success = Some(FALSE)
          THEN Throw(Error(Text("Weatherstack API returned unsuccessful response")))
          ELSE IF data.current = None
          THEN Throw(Error(Text("No current weather data returned from Weatherstack API")))
          ELSE IF data.location = None
          THEN Throw(Error(Text("No location data returned from Weatherstack API")))
          ELSE Return(data)

\* the status checks placed before the check of the timeout code
LiveCatch_statusFirst(error) ==
  IF error.isAxios
  THEN IF error.status = 401
       THEN Error(Text("Unauthorized - Invalid Weatherstack API key"))
       ELSE IF error.status = 429
       THEN Error(Text("Too many requests - Weatherstack rate limit exceeded"))
       ELSE IF error.status = 403
       THEN Error(Text("Forbidden - Current plan does not support this feature"))
       ELSE IF error.status = 404
       THEN Error(Text("Weatherstack API endpoint not found"))
       ELSE IF error.code = "ECONNABORTED"
       THEN Error(Text("Weatherstack API timeout - please try again"))
       ELSE Error(Text("Weatherstack service error: ") \o error.message)
  ELSE error

\* the catch block of the live lookup
LiveCatch(error) ==
  IF error.isAxios
  THEN IF error.code = "ECONNABORTED"
       THEN Error(Text("Weatherstack API timeout - please try again"))
       ELSE IF error.status = 401
       THEN Error(Text("Unauthorized - Invalid Weatherstack API key"))
       ELSE IF error.status = 429
       THEN Error(Text("Too many requests - Weatherstack rate limit exceeded"))
       ELSE IF error.status = 403
       THEN Error(Text("Forbidden - Current plan does not support this feature"))
       ELSE IF error.status = 404
       THEN Error(Text("Weatherstack API endpoint not found"))
       ELSE Error(Text("Weatherstack service error: ") \o error.message)
  ELSE error

IsMockKey_demoKeyOnly(key) == key = "demo_key"

IsMockKey_demoToo(key) == key = "demo_key" \/ key = "mock" \/ key = "demo"

IsMockKey(key) == key = "demo_key" \/ key = "mock"

AxiosGet(query) == [call |-> "axios.get", args |-> <<query>>]

\* a failed live request issued a second time before giving up
getCurrentWeather_retryOnce(key, city, state, zipCode, http, rnd, now) ==
  IF IsMockKey(key)
  THEN [outcome |-> Return(getMockWeatherData(city, state, zipCode, rnd, now)),
        requests |-> <<>>]
  ELSE LET query == QueryOf(city, state, zipCode)
           tried == LiveTry(query, http)
       IN [outcome |-> IF tried.threw THEN Throw(LiveCatch(tried.error)) ELSE tried,
           requests |-> IF tried.threw THEN <<AxiosGet(query), AxiosGet(query)>>
                        ELSE <<AxiosGet(query)>>]

\* the outcome of the lookup and the HTTP requests it made
getCurrentWeather(key, city, state, zipCode, http, rnd, now) ==
  IF IsMockKey(key)
  THEN [outcome |-> Return(getMockWeatherData(city, state, zipCode, rnd, now)),
        requests |-> <<>>]
  ELSE LET query == QueryOf(city, state, zipCode)
           tried == LiveTry(query, http)
       IN [outcome |-> IF tried.threw THEN Throw(LiveCatch(tried.error)) ELSE tried,
           requests |-> <<AxiosGet(query)>>]

\* What one getCurrentWeather call does, as an observation: the requests it
\* made, the HTTP outcome it received, and the snapshot or the error.
getCurrentWeatherRun(key, city, state, zipCode, http, rnd, now) ==
  LET looked == getCurrentWeather(key, city, state, zipCode, http, rnd, now)
  IN [op |-> "getCurrentWeather", args |-> <<city, state, zipCode>>, done |-> TRUE,
      threw |-> looked.outcome.threw,
      message |-> IF looked.outcome.threw THEN looked.outcome.error.message ELSE <<>>,
      value |-> IF looked.outcome.threw THEN None ELSE Some(looked.outcome.value),
      weather |-> Some(looked.outcome), calls |-> looked.requests,
      http |-> IF looked.requests = <<>> THEN None ELSE Some(http),
      rejected |-> <<>>, inserted |-> None]

\* the try block of testConnection without its catch: a failed request throws
testConnection_noCatch(key, http) ==
  IF IsMockKey(key)
  THEN [outcome |-> Return(TRUE), requests |-> <<>>]
  ELSE [outcome |-> IF http.kind = "throw" THEN Throw(http.thrown)
                    ELSE IF http.data.error # None THEN Return(FALSE)
                    ELSE Return(http.data.current # None /\ http.data.location # None),
        requests |-> <<AxiosGet(<<"New York">>)>>]

\* the outcome of the connection test and the HTTP requests it made
testConnection(key, http) ==
  IF IsMockKey(key)
  THEN [outcome |-> Return(TRUE), requests |-> <<>>]
  ELSE [outcome |-> IF http.kind = "throw" THEN Return(FALSE)
                    ELSE IF http.data.error # None THEN Return(FALSE)
                    ELSE IF http.data.current # None /\ http.data.location # None
                    THEN Return(TRUE)
                    ELSE Return(FALSE),
        requests |-> <<AxiosGet(<<"New York">>)>>]

\* What one testConnection call does, as an observation.
testConnectionRun(key, http) ==
  LET tested == testConnection(key, http)
  IN [op |-> "testConnection", args |-> <<>>, done |-> TRUE,
      threw |-> tested.outcome.threw,
      message |-> IF tested.outcome.threw THEN tested.outcome.error.message ELSE <<>>,
      value |-> IF tested.outcome.threw THEN None ELSE Some(tested.outcome.value),
      weather |-> None, calls |-> tested.requests,
      http |-> IF tested.requests = <<>> THEN None ELSE Some(http),
      rejected |-> <<>>, inserted |-> None]

(***************************************************************************)
(* The Property table (the storage collaborator).                          *)
(***************************************************************************)
MaxCreates == 2

\* the identifier the table assigns to its n-th row
MakeId(n) == <<"i", "d">> \o NatToChars(n)

\* prisma.property.findUnique({ where: { id } })
findUnique(table, id) ==
  LET found == {row \in table : row.id = id}
  IN IF found = {} THEN None ELSE Some(CHOOSE row \in found : TRUE)

\* the row prisma.property.create({ data }) inserts and returns
NewRow(data, n, now) ==
  [id |-> MakeId(n), city |-> data.city, street |-> data.street,
   state |-> data.state, zipCode |-> data.zipCode, lat |-> data.lat,
   long |-> data.long, weatherData |-> data.weatherData,
   createdAt |-> now, updatedAt |-> now]

DbCall(name, arg) == [call |-> name, args |-> <<arg>>]

Min(a, b) == IF a < b THEN a ELSE b
Max(a, b) == IF a > b THEN a ELSE b

\* a < b for strings, character by character (the order of the table's
\* collation for strings of one letter-case pattern)
RECURSIVE StrLess(_, _)
StrLess(a, b) ==
  IF b = <<>> THEN FALSE
  ELSE IF a = <<>> THEN TRUE
  ELSE IF Head(a) = Head(b) THEN StrLess(Tail(a), Tail(b))
  ELSE CharCode(Head(a)) < CharCode(Head(b))

\* { contains: needle, mode }: needle occurs in hay, letter case ignored when
\* the mode is 'insensitive'
Contains(hay, needle, mode) ==
  \E i \in 0..(Len(hay) - Len(needle)) :
    LET part == SubSeq(hay, i + 1, i + Len(needle))
    IN IF mode = "insensitive" THEN toLowerCase(part) = toLowerCase(needle)
       ELSE part = needle

\* a row satisfies a where object: every condition present holds
RowMatches(row, where) ==
  /\ where.city # None
       => Contains(row.city, where.city[1].contains, where.city[1].mode)
  /\ where.state # None => row.state = where.state[1]
  /\ where.zipCode # None => row.zipCode = where.zipCode[1]

\* prisma.property.count({ where })
count(table, where) == Cardinality({row \in table : RowMatches(row, where)})

KeyLess(q, r, key) ==
  CASE key = "createdAt" -> q.createdAt < r.createdAt
    [] key = "city" -> StrLess(q.city, r.city)
    [] key = "state" -> StrLess(q.state, r.state)

\* q comes before r under orderBy; rows with equal keys come in an order of
\* the table's choosing: tie says whether the older or the newer row is first
Before(q, r, orderBy, tie) ==
  LET ahead(a, b) == IF orderBy.order = "asc" THEN KeyLess(a, b, orderBy.key)
                     ELSE KeyLess(b, a, orderBy.key)
  IN \/ ahead(q, r)
     \/ /\ ~ahead(r, q)
        /\ IF tie = "older" THEN q.createdAt < r.createdAt
           ELSE q.createdAt > r.createdAt

\* ORDER BY: the rows in the order of Before, each at the position that is
\* the number of rows before it
SortRows(rows, orderBy, tie) ==
  LET ahead == [r \in rows |-> Cardinality({q \in rows : Before(q, r, orderBy, tie)})]
                 @@ [r \in {} |-> 0]
  IN [i \in 1..Cardinality(rows) |-> CHOOSE r \in rows : ahead[r] = i - 1]

\* prisma.property.findMany({ where, orderBy, take, skip }) for skip >= 0:
\* a take >= 0 counts from the beginning of the ordered list, a negative take
\* from its end; the rows come in the order of orderBy either way
findMany(table, query, tie) ==
  LET ordered == SortRows({row \in table : RowMatches(row, query.where)},
                          query.orderBy, tie)
      n == Len(ordered)
      lo == IF query.take >= 0 THEN query.skip + 1
            ELSE Max(1, n - query.skip + query.take + 1)
      hi == IF query.take >= 0 THEN Min(n, query.skip + query.take)
            ELSE n - query.skip
  IN IF lo > hi THEN <<>> ELSE SubSeq(ordered, lo, hi)

(***************************************************************************)
(* PropertyService                                                         *)
(***************************************************************************)
WeatherCall(city, state, zipCode) ==
  [call |-> "weatherService.getCurrentWeather", args |-> <<city, state, zipCode>>]

\* `Validation failed: ${validation.errors.join(', ')}`
ValidationMessage_firstOnly(errors) == <<"Validation failed: ", errors[1]>>

ValidationMessage(errors) == Text("Validation failed: ") \o join(errors, ", ")

\* the catch block of createProperty
CreateCatch_noCause(error) == Text("Failed to create property: ") \o Text("Unknown error")

\* the caught error thrown again as it is
CreateCatch_rethrow(error) == error.message

CreateCatch(error) ==
  IF error.isError THEN Text("Failed to create property: ") \o error.message
  ELSE Text("Failed to create property: ") \o Text("Unknown error")

\* the data object handed to prisma.property.create
CreateData_rawInput(input, sanitizedInput, lat, long, weatherData) ==
  [city |-> input.city, street |-> input.street,
   state |-> input.state, zipCode |-> input.zipCode,
   lat |-> lat, long |-> long, weatherData |-> weatherData]

CreateData(input, sanitizedInput, lat, long, weatherData) ==
  [city |-> sanitizedInput.city, street |-> sanitizedInput.street,
   state |-> sanitizedInput.state, zipCode |-> sanitizedInput.zipCode,
   lat |-> lat, long |-> long, weatherData |-> weatherData]

\* the observation of one call: what it was given, the collaborator calls it
\* made in order, the HTTP outcome it received (if it made a request), the
\* collaborator calls that rejected, and what it returned or threw
CallLog(op, args) ==
  [op |-> op, args |-> args, done |-> TRUE, threw |-> TRUE, message |-> <<>>,
   value |-> None, weather |-> None, calls |-> <<>>, http |-> None,
   rejected |-> <<>>, inserted |-> None]

\* What one createProperty call does: the calls it makes in order, the row it
\* inserts (if any) and what it returns or throws. http, rnd and dbError are
\* the outcomes of the HTTP request, of Math.random and of the insert; n and
\* now are the table's next identifier and the clock reading.
createPropertyRun(key, input, http, rnd, dbError, n, now) ==
  LET sanitizedInput == sanitizeInput(input)
      validation == validatePropertyInput(sanitizedInput)
      looked == getCurrentWeather(key, sanitizedInput.city, sanitizedInput.state,
                                  sanitizedInput.zipCode, http, rnd, now)
      weatherData == looked.outcome.value
      lat == parseFloat(weatherData.location[1].lat)
      long == parseFloat(weatherData.location[1].lon)
      data == CreateData(input, sanitizedInput, lat, long, weatherData)
      row == NewRow(data, n, now + 1)
      lookup == <<WeatherCall(sanitizedInput.city, sanitizedInput.state,
                              sanitizedInput.zipCode)>> \o looked.requests
      answered == IF looked.requests = <<>> THEN None ELSE Some(http)
      base == CallLog("createProperty", <<input>>)
  IN IF ~validation.isValid
     THEN [base EXCEPT !.message = ValidationMessage(validation.errors)]
     ELSE IF looked.outcome.threw
     THEN [base EXCEPT !.message = CreateCatch(looked.outcome.error),
                       !.weather = Some(looked.outcome), !.calls = lookup,
                       !.http = answered]
     ELSE IF isNaN(lat) \/ isNaN(long)
     THEN [base EXCEPT !.message = CreateCatch(Error(Text(
                         "Invalid coordinates received from weather service"))),
                       !.weather = Some(looked.outcome), !.calls = lookup,
                       !.http = answered]
     ELSE IF dbError # None
     THEN [base EXCEPT !.message = CreateCatch(Error(dbError[1])),
                       !.weather = Some(looked.outcome), !.http = answered,
                       !.rejected = <<"prisma.property.create">>,
                       !.calls = lookup \o <<DbCall("prisma.property.create", data)>>]
     ELSE [base EXCEPT !.threw = FALSE, !.value = Some(row),
                       !.weather = Some(looked.outcome), !.http = answered,
                       !.calls = lookup \o <<DbCall("prisma.property.create", data)>>,
                       !.inserted = Some(row)]

\* the table after the call: the insert is one atomic statement, so a row
\* exists only if the insert succeeded
TableAfterCreate_partialRow(table, run, n, now) ==
  LET issued == {i \in 1..Len(run.calls) : run.calls[i].call = "prisma.property.create"}
  IN table \cup {NewRow(run.calls[i].args[1], n, now + 1) : i \in issued}

TableAfterCreate(table, run, n, now) ==
  IF run.inserted = None THEN table ELSE table \cup {run.inserted[1]}

\* What one getPropertyById call does. dbError is the outcome of the lookup.
getPropertyByIdRun_firstRow(table, id, dbError) ==
  LET base == CallLog("getPropertyById", <<id>>)
  IN IF Falsy(id) \/ Len(trim(id)) = 0
     THEN [base EXCEPT !.message = Text("Property ID is required")]
     ELSE [base EXCEPT !.threw = FALSE,
             !.value = IF table = {} THEN None
                       ELSE Some(CHOOSE row \in table :
                                   \A other \in table : other.createdAt >= row.createdAt),
             !.calls = <<DbCall("prisma.property.findUnique", trim(id))>>]

\* the lookup made with the identifier as given, not trimmed
getPropertyByIdRun_noTrim(table, id, dbError) ==
  LET base == CallLog("getPropertyById", <<id>>)
      find == <<DbCall("prisma.property.findUnique", id)>>
  IN IF Falsy(id) \/ Len(trim(id)) = 0
     THEN [base EXCEPT !.message = Text("Property ID is required")]
     ELSE IF dbError # None
     THEN [base EXCEPT !.message = Text("Failed to fetch property: ") \o dbError[1],
                       !.calls = find, !.rejected = <<"prisma.property.findUnique">>]
     ELSE [base EXCEPT !.threw = FALSE, !.value = findUnique(table, id),
                       !.calls = find]

getPropertyByIdRun(table, id, dbError) ==
  LET base == CallLog("getPropertyById", <<id>>)
      find == <<DbCall("prisma.property.findUnique", trim(id))>>
  IN IF Falsy(id) \/ Len(trim(id)) = 0
     THEN [base EXCEPT !.message = Text("Property ID is required")]
     ELSE IF dbError # None
     THEN [base EXCEPT !.message = Text("Failed to fetch property: ") \o dbError[1],
                       !.calls = find, !.rejected = <<"prisma.property.findUnique">>]
     ELSE [base EXCEPT !.threw = FALSE, !.value = findUnique(table, trim(id)),
                       !.calls = find]

DefaultLimit == 50
MaxTake == 100

\* a destructuring default: the value given, or d when it is undefined
Default(x, d) == IF x = None THEN d ELSE x[1]

\* the where object getProperties builds, with a case-sensitive city match
ListWhere_sensitive(filters) ==
  [city |-> IF Falsy(filters.city) THEN None
            ELSE Some([contains |-> filters.city, mode |-> "default"]),
   state |-> IF Falsy(filters.state) THEN None ELSE Some(toUpperCase(filters.state)),
   zipCode |-> IF Falsy(filters.zipCode) THEN None ELSE Some(filters.zipCode)]

\* the where object getProperties builds
ListWhere(filters) ==
  [city |-> IF Falsy(filters.city) THEN None
            ELSE Some([contains |-> filters.city, mode |-> "insensitive"]),
   state |-> IF Falsy(filters.state) THEN None ELSE Some(toUpperCase(filters.state)),
   zipCode |-> IF Falsy(filters.zipCode) THEN None ELSE Some(filters.zipCode)]

\* What one getProperties call does. dbError is the outcome of findMany, tie
\* the table's order among rows with equal sort keys.
getPropertiesRun(table, filters, dbError, tie) ==
  LET sortBy == Default(filters.sortBy, "createdAt")
      sortOrder == Default(filters.sortOrder, "desc")
      limit == Default(filters.limit, DefaultLimit)
      offset == Default(filters.offset, 0)
      query == [where |-> ListWhere(filters),
                orderBy |-> [key |-> sortBy, order |-> sortOrder],
                take |-> Min(limit, MaxTake), skip |-> offset]
      base == [CallLog("getProperties", <<filters>>)
                 EXCEPT !.calls = <<DbCall("prisma.property.findMany", query)>>]
  IN IF dbError # None
     THEN [base EXCEPT !.message = Text("Failed to fetch properties: ") \o dbError[1],
                       !.rejected = <<"prisma.property.findMany">>]
     ELSE [base EXCEPT !.threw = FALSE, !.value = Some(findMany(table, query, tie))]

\* the where object getPropertiesCount builds, with the state filter as given
CountWhere_noUpper(filters) ==
  [city |-> IF Falsy(filters.city) THEN None
            ELSE Some([contains |-> filters.city, mode |-> "insensitive"]),
   state |-> IF Falsy(filters.state) THEN None ELSE Some(filters.state),
   zipCode |-> IF Falsy(filters.zipCode) THEN None ELSE Some(filters.zipCode)]

\* the where object getPropertiesCount builds
CountWhere(filters) ==
  [city |-> IF Falsy(filters.city) THEN None
            ELSE Some([contains |-> filters.city, mode |-> "insensitive"]),
   state |-> IF Falsy(filters.state) THEN None ELSE Some(toUpperCase(filters.state)),
   zipCode |-> IF Falsy(filters.zipCode) THEN None ELSE Some(filters.zipCode)]

\* What one getPropertiesCount call does. dbError is the outcome of count.
getPropertiesCountRun(table, filters, dbError) ==
  LET where == CountWhere(filters)
      base == [CallLog("getPropertiesCount", <<filters>>)
                 EXCEPT !.calls = <<DbCall("prisma.property.count", [where |-> where])>>]
  IN IF dbError # None
     THEN [base EXCEPT !.message = Text("Failed to count properties: ") \o dbError[1],
                       !.rejected = <<"prisma.property.count">>]
     ELSE [base EXCEPT !.threw = FALSE, !.value = Some(count(table, where))]

\* the catch block reporting the table's missing-row rejection as not found
DeleteCatch_goneIsNotFound(error) ==
  IF error.isError /\ error.message \in {Text("Property not found"),
                                         Text("Record to delete does not exist.")}
  THEN Text("Property not found")
  ELSE Text("Failed to delete property: ")
         \o (IF error.isError THEN error.message ELSE Text("Unknown error"))

\* the catch block of deleteProperty
DeleteCatch(error) ==
  IF error.isError /\ error.message = Text("Property not found")
  THEN error.message
  ELSE Text("Failed to delete property: ")
         \o (IF error.isError THEN error.message ELSE Text("Unknown error"))

\* the existence check left out: the delete is issued whatever the lookup found
deleteLookupRun_noExistenceCheck(table, id, dbError) ==
  LET base == CallLog("deleteProperty", <<id>>)
      find == <<DbCall("prisma.property.findUnique", trim(id))>>
  IN IF Falsy(id) \/ Len(trim(id)) = 0
     THEN [base EXCEPT !.message = Text("Property ID is required")]
     ELSE IF dbError # None
     THEN [base EXCEPT !.message = DeleteCatch(Error(dbError[1])), !.calls = find,
                       !.rejected = <<"prisma.property.findUnique">>]
     ELSE [base EXCEPT !.done = FALSE, !.threw = FALSE, !.calls = find]

\* deleteProperty up to prisma.property.delete: it throws (done), or it has
\* found the record and goes on to the delete (not done).
deleteLookupRun(table, id, dbError) ==
  LET base == CallLog("deleteProperty", <<id>>)
      find == <<DbCall("prisma.property.findUnique", trim(id))>>
  IN IF Falsy(id) \/ Len(trim(id)) = 0
     THEN [base EXCEPT !.message = Text("Property ID is required")]
     ELSE IF dbError # None
     THEN [base EXCEPT !.message = DeleteCatch(Error(dbError[1])), !.calls = find,
                       !.rejected = <<"prisma.property.findUnique">>]
     ELSE IF findUnique(table, trim(id)) = None
     THEN [base EXCEPT !.message = DeleteCatch(Error(Text("Property not found"))),
                       !.calls = find]
     ELSE [base EXCEPT !.done = FALSE, !.threw = FALSE, !.calls = find]

\* prisma.property.delete on a row that is gone rejects
RecordGone == Text("Record to delete does not exist.")

\* the outcome of prisma.property.delete not awaited: true whatever it was
deleteFinishRun_notAwaited(table, pending, dbError) ==
  LET id == trim(pending.args[1])
      calls == pending.calls \o <<DbCall("prisma.property.delete", id)>>
      base == [pending EXCEPT !.done = TRUE, !.calls = calls, !.value = Some(TRUE)]
  IN IF dbError # None \/ findUnique(table, id) = None
     THEN [base EXCEPT !.rejected = <<"prisma.property.delete">>]
     ELSE base

\* prisma.property.deleteMany in place of delete: a row that is gone is no error
deleteFinishRun_deleteMany(table, pending, dbError) ==
  LET id == trim(pending.args[1])
      calls == pending.calls \o <<DbCall("prisma.property.delete", id)>>
      base == [pending EXCEPT !.done = TRUE, !.calls = calls]
  IN IF dbError # None
     THEN [base EXCEPT !.threw = TRUE, !.message = DeleteCatch(Error(dbError[1])),
                       !.rejected = <<"prisma.property.delete">>]
     ELSE [base EXCEPT !.value = Some(TRUE)]

\* deleteProperty from prisma.property.delete on, for a call that found the record
deleteFinishRun(table, pending, dbError) ==
  LET id == trim(pending.args[1])
      calls == pending.calls \o <<DbCall("prisma.property.delete", id)>>
      base == [pending EXCEPT !.done = TRUE, !.calls = calls]
  IN IF dbError # None
     THEN [base EXCEPT !.threw = TRUE, !.message = DeleteCatch(Error(dbError[1])),
                       !.rejected = <<"prisma.property.delete">>]
     ELSE IF findUnique(table, id) = None
     THEN [base EXCEPT !.threw = TRUE, !.message = DeleteCatch(Error(RecordGone)),
                       !.rejected = <<"prisma.property.delete">>]
     ELSE [base EXCEPT !.value = Some(TRUE)]

(***************************************************************************)
(* The resolvers (the GraphQL boundary over PropertyService).              *)
(***************************************************************************)
\* new GraphQLError(message, { extensions: { code } })
GraphQLError(message, code) == [message |-> message, code |-> code]

\* a resolver call: the service call it awaits (run), and once that is done
\* the data it returns or the GraphQLError it throws
ResolverCall(op, args, run) ==
  [op |-> op, args |-> args, done |-> FALSE, threw |-> FALSE, data |-> None,
   error |-> None, service |-> run]

Resolve(req, data) == [req EXCEPT !.done = TRUE, !.data = Some(data)]

Reject(req, error) == [req EXCEPT !.done = TRUE, !.threw = TRUE, !.error = Some(error)]

\* mapSortBy
mapSortBy(sortBy) ==
  IF sortBy = None THEN "createdAt"
  ELSE CASE sortBy[1] = "CREATED_AT" -> "createdAt"
         [] sortBy[1] = "CITY" -> "city"
         [] sortBy[1] = "STATE" -> "state"
         [] OTHER -> "createdAt"

\* args.sortOrder?.toLowerCase() || 'desc', sortOrder being ASC or DESC
mapSortOrder(sortOrder) ==
  IF sortOrder = None THEN "desc"
  ELSE IF sortOrder[1] = "ASC" THEN "asc" ELSE "desc"

\* x || d for an optional number: d when x is undefined or 0
OrNumber(x, d) == IF x = None \/ x[1] = 0 THEN d ELSE x[1]

\* the filters object Query.properties hands to getProperties
PropertiesFilters(args) ==
  [city |-> args.city, state |-> args.state, zipCode |-> args.zipCode,
   sortBy |-> Some(mapSortBy(args.sortBy)),
   sortOrder |-> Some(mapSortOrder(args.sortOrder)),
   limit |-> Some(OrNumber(args.limit, DefaultLimit)),
   offset |-> Some(OrNumber(args.offset, 0))]

\* Query.properties, given what getProperties did
propertiesResolver(args, run) ==
  LET req == ResolverCall("Query.properties", <<args>>, run)
  IN IF run.threw
     THEN Reject(req, GraphQLError(Text("Failed to fetch properties: ") \o run.message,
                                   "PROPERTIES_FETCH_ERROR"))
     ELSE Resolve(req, run.value[1])

\* Query.property with the not-found error wrapped by the catch block like any other
propertyResolver_wrapAll(args, run) ==
  LET req == ResolverCall("Query.property", <<args>>, run)
  IN IF run.threw
     THEN Reject(req, GraphQLError(Text("Failed to fetch property: ") \o run.message,
                                   "PROPERTY_FETCH_ERROR"))
     ELSE IF run.value = None
     THEN Reject(req, GraphQLError(Text("Failed to fetch property: ")
                                     \o Text("Property not found"),
                                   "PROPERTY_FETCH_ERROR"))
     ELSE Resolve(req, run.value[1])

\* Query.property, given what getPropertyById did
propertyResolver(args, run) ==
  LET req == ResolverCall("Query.property", <<args>>, run)
  IN IF run.threw
     THEN Reject(req, GraphQLError(Text("Failed to fetch property: ") \o run.message,
                                   "PROPERTY_FETCH_ERROR"))
     ELSE IF run.value = None
     THEN Reject(req, GraphQLError(Text("Property not found"), "PROPERTY_NOT_FOUND"))
     ELSE Resolve(req, run.value[1])

\* Mutation.createProperty, given what createProperty did
createPropertyResolver(args, run) ==
  LET req == ResolverCall("Mutation.createProperty", <<args>>, run)
  IN IF run.threw
     THEN Reject(req, GraphQLError(Text("Failed to create property: ") \o run.message,
                                   "PROPERTY_CREATE_ERROR"))
     ELSE Resolve(req, run.value[1])

\* Mutation.deleteProperty, given what deleteProperty did
deletePropertyResolver(args, run) ==
  LET req == ResolverCall("Mutation.deleteProperty", <<args>>, run)
  IN IF run.threw
     THEN IF run.message = Text("Property not found")
          THEN Reject(req, GraphQLError(Text("Property not found"), "PROPERTY_NOT_FOUND"))
          ELSE Reject(req, GraphQLError(Text("Failed to delete property: ")
                                          \o run.message,
                                        "PROPERTY_DELETE_ERROR"))
     ELSE Resolve(req, run.value[1])

(***************************************************************************)
(* Sample strings.                                                         *)
(***************************************************************************)
Phoenix == <<"P","h","o","e","n","i","x">>
Miami == <<"M","i","a","m","i">>
MainSt == <<"1","2","3"," ","M","a","i","n"," ","S","t">>
AZ == <<"A","Z">>
Zip85001 == <<"8","5","0","0","1">>
Zip33101 == <<"3","3","1","0","1">>

Sp == <<" ">>

CitySamples ==
  { Undefined, <<>>, <<" ", "\t">>, Phoenix, Sp \o Sp \o Miami \o Sp }

StreetSamples ==
  { Undefined, Sp, Sp \o MainSt \o <<"\t", " ">> }

StateSamples ==
  { Undefined, <<>>, AZ, <<"a","z">>, Sp \o <<"a","z">> \o Sp, <<"A","z">>,
    <<"Z","A">>, <<"A">>, <<"A","Z","A">>, <<"X","X">>, <<"f","l">> \o Sp \o Sp,
    <<"N","Y">> }

ZipSamples ==
  { Undefined, <<>>, Zip85001, Sp \o Sp \o Zip85001 \o Sp, <<"8","5","0","0">>,
    Zip85001 \o <<"1">>, <<"8","5","0","0","A">>, <<"8","5"," ","0","1">>,
    <<"a","5","0","0","1">>, <<"1","2","3">>, Zip33101 \o <<"\t">> }

SubmissionSamples ==
  [city : CitySamples, street : StreetSamples, state : StateSamples,
   zipCode : ZipSamples]

HarnessIdle ==
  /\ orig = [city |-> Phoenix, street |-> MainSt, state |-> AZ, zipCode |-> Zip85001]
  /\ sub = orig
  /\ prev = orig
  /\ applied = <<>>
  /\ verdict = <<>>

(***************************************************************************)
(* The service as a state machine: calls arrive in any order, each with    *)
(* any of the sample inputs and any outcome of the collaborators it        *)
(* reaches. Calls run one at a time, each to completion.                   *)
(***************************************************************************)
ApiKeys == {"mock", "live-key"}

Submission(city, street, state, zipCode) ==
  [city |-> city, street |-> street, state |-> state, zipCode |-> zipCode]

CreateInputs ==
  { Submission(Sp \o Phoenix \o Sp, MainSt \o Sp, Sp \o <<"a","z">>, Zip85001 \o Sp),
    Submission(Miami, MainSt, <<"F","L">>, Zip33101),
    Submission(Undefined, Sp, <<"X","X">>, <<"8","5","0","0","A">>),
    Submission(<<"\t">>, MainSt, AZ, Zip85001),
    Submission(Phoenix, Undefined, AZ, Zip85001),
    Submission(Phoenix, MainSt, <<"A","Z","A">>, <<"8","5","0","0">>) }

Location(lat, lon) ==
  [name |-> Phoenix, country |-> "United States of America",
   region |-> <<"A","r","i","z","o","n","a">>, lat |-> lat, lon |-> lon,
   timezone_id |-> "America/Phoenix", localtime |-> 0, localtime_epoch |-> 0,
   utc_offset |-> "-7.0"]

Current ==
  [observation_time |-> 0, temperature |-> 25, weather_code |-> 113,
   weather_icons |-> <<"sunny.png">>, weather_descriptions |-> <<"Sunny">>,
   wind_speed |-> 10, wind_degree |-> 180, wind_dir |-> "S", pressure |-> 1013,
   precip |-> 0, humidity |-> 45, cloudcover |-> 0, feelslike |-> 25,
   uv_index |-> 8, visibility |-> 10, is_day |-> "yes"]

Request ==
  [type |-> "City", query |-> QueryOf(Phoenix, AZ, Zip85001), language |-> "en", unit |-> "m"]

Body(lat, lon) ==
  [NoBody EXCEPT !.request = Some(Request), !.location = Some(Location(lat, lon)),
                 !.current = Some(Current)]

ErrorBody(code, info) == [NoBody EXCEPT !.error = Some([code |-> code, info |-> info])]

Lat33 == <<"3","3",".","4","4","8">>
LonM112 == <<"-","1","1","2",".","0","7","4">>
Invalid == <<"i","n","v","a","l","i","d">>

HttpOutcomes ==
  { HttpResponse(Body(Lat33, LonM112)),
    HttpResponse(Body(Invalid, Invalid)),
    HttpResponse(Body(InfinityWord, LonM112)),
    HttpResponse(Body(Lat33, <<"-">> \o InfinityWord)),
    HttpResponse(ErrorBody(101, Text("bad key"))),
    HttpResponse(ErrorBody(999, Text("odd"))),
    HttpResponse([NoBody EXCEPT !.success = Some(FALSE)]),
    HttpResponse([Body(Lat33, LonM112) EXCEPT !.current = None]),
    HttpResponse([Body(Lat33, LonM112) EXCEPT !.location = None]),
    HttpThrow(AxiosError("ECONNABORTED", 0, Text("timeout of 15000ms exceeded"))),
    HttpThrow(AxiosError("ERR_BAD_REQUEST", 401, Text("Request failed with status code 401"))),
    HttpThrow(AxiosError("ERR_NETWORK", 0, Text("Network Error"))),
    HttpThrow(Error(Text("Some other error"))) }

NoHttp == HttpThrow(Error(Text("no request")))

Draws(u, v) ==
  [temperature |-> u, wind_speed |-> v, wind_degree |-> u, humidity |-> v,
   cloudcover |-> u, feelslike |-> v, uv_index |-> u]

RandomDraws == { Draws(0, 0), Draws(999, 999), Draws(0, 999) }

NoDraws == Draws(0, 0)

DbFailures == {Text("Database error")}

DbOutcomes == {None} \cup {Some(m) : m \in DbFailures}

IdInputs ==
  {Undefined, Sp, Sp \o MakeId(1) \o Sp, MakeId(2), MakeId(MaxCreates + 1)}

Idle == [CallLog("none", <<>>) EXCEPT !.threw = FALSE]

\* the clients of the API, and their sessions before any of them has called
MaxCallers == 3

Callers == 1..MaxCallers

NoRequest == ResolverCall("none", <<>>, Idle)

NoSessions == [c \in Callers |-> NoRequest]

ServiceIdle ==
  /\ apiKey = "mock"
  /\ store = {}
  /\ nextId = 0
  /\ clock = 0
  /\ returned = {}
  /\ last = Idle

Init ==
  /\ apiKey \in ApiKeys
  /\ store = {}
  /\ nextId = 0
  /\ clock = 0
  /\ returned = {}
  /\ last = Idle
  /\ HarnessIdle
  /\ session = NoSessions

IsValidInput(input) == validatePropertyInput(sanitizeInput(input)).isValid

\* the table has handed out at most MaxCreates identifiers
createProperty(input, http, rnd, dbError) ==
  /\ nextId <= MaxCreates
  /\ \E run \in {createPropertyRun(apiKey, input, http, rnd, dbError,
                                    nextId + 1, clock)} :
       /\ run.inserted # None => nextId < MaxCreates
       /\ store' = TableAfterCreate(store, run, nextId + 1, clock)
       /\ nextId' = IF run.inserted # None THEN nextId + 1 ELSE nextId
       /\ clock' = IF run.inserted # None THEN clock + 1 ELSE clock
       /\ returned' = IF run.threw THEN returned ELSE returned \cup {run.value[1]}
       /\ last' = run
       /\ UNCHANGED <<apiKey, harnessVars, session>>

getPropertyById(id, dbError) ==
  /\ last' = getPropertyByIdRun(store, id, dbError)
  /\ UNCHANGED <<apiKey, store, nextId, clock, returned, harnessVars, session>>

\* findError and deleteError are the outcomes of the lookup and of the delete;
\* every stored row was inserted under an identifier the table handed out
deleteProperty(id, findError, deleteError) ==
  /\ Cardinality(store) <= nextId
  /\ \E looked \in {deleteLookupRun(store, id, findError)} :
       \E run \in {IF looked.done THEN looked
                   ELSE deleteFinishRun(store, looked, deleteError)} :
         /\ store' = IF run.threw THEN store
                     ELSE {row \in store : row.id # trim(id)}
         /\ returned' = IF run.threw THEN returned
                        ELSE {row \in returned : row.id # trim(id)}
         /\ last' = run
         /\ UNCHANGED <<apiKey, nextId, clock, harnessVars, session>>

Next ==
  \/ \E input \in CreateInputs :
       \E http \in (IF IsValidInput(input) /\ ~IsMockKey(apiKey)
                    THEN HttpOutcomes ELSE {NoHttp}),
          rnd \in (IF IsValidInput(input) /\ IsMockKey(apiKey)
                   THEN RandomDraws ELSE {NoDraws}),
          dbError \in (IF IsValidInput(input) THEN DbOutcomes ELSE {None}) :
         createProperty(input, http, rnd, dbError)
  \/ \E id \in IdInputs, dbError \in DbOutcomes : getPropertyById(id, dbError)
  \/ \E id \in IdInputs, findError \in DbOutcomes, deleteError \in DbOutcomes :
       deleteProperty(id, findError, deleteError)

Spec == Init /\ [][Next]_vars

(***************************************************************************)
(* The validator applied to sample submissions: sanitizeInput replaces the *)
(* submission at hand, validatePropertyInput judges it.                    *)
(***************************************************************************)
MaxApply == 3

InitValidation ==
  /\ orig \in SubmissionSamples
  /\ sub = orig
  /\ prev = orig
  /\ applied = <<>>
  /\ verdict = <<>>
  /\ ServiceIdle
  /\ session = NoSessions

ApplySanitize ==
  /\ Len(applied) < MaxApply
  /\ prev' = sub
  /\ sub' = sanitizeInput(sub)
  /\ applied' = Append(applied, "sanitizeInput")
  /\ UNCHANGED <<orig, verdict, serviceVars, session>>

ApplyValidate ==
  /\ Len(applied) < MaxApply
  /\ verdict' = <<[input |-> sub, result |-> validatePropertyInput(sub)]>>
  /\ applied' = Append(applied, "validatePropertyInput")
  /\ UNCHANGED <<orig, sub, prev, serviceVars, session>>

NextValidation == ApplySanitize \/ ApplyValidate

SpecValidation == InitValidation /\ [][NextValidation]_vars

(***************************************************************************)
(* The weather adapter on its own: one service per credential, lookups for *)
(* sample places with any outcome of the HTTP request.                     *)
(***************************************************************************)
WeatherKeys == {"demo_key", "mock", "demo", "Mock", "live-key"}

Albuquerque == <<"A","l","b","u","q","u","e","r","q","u","e">>
NewYork == <<"N","e","w"," ","Y","o","r","k">>

WeatherCities ==
  { <<>>, Phoenix, toLowerCase(Phoenix), toUpperCase(Phoenix), Miami, Albuquerque,
    NewYork }

WeatherStates == {AZ, <<"F","L">>}

WeatherZips == {Zip85001, Zip33101}

ErrorWithBody(code, info) ==
  [Body(Lat33, LonM112) EXCEPT !.error = Some([code |-> code, info |-> info])]

WeatherHttpOutcomes ==
  HttpOutcomes \cup
  { HttpResponse(ErrorBody(429, Text("limit"))),
    HttpResponse(ErrorBody(601, Text("no such place"))),
    HttpResponse(ErrorBody(615, Text("failed"))),
    HttpResponse(ErrorBody(104, Text("usage limit"))),
    HttpResponse(ErrorWithBody(101, Text("bad key"))),
    HttpResponse(ErrorWithBody(999, Text("odd"))),
    HttpResponse([ErrorBody(601, Text("no such place")) EXCEPT !.success = Some(FALSE)]),
    HttpResponse([Body(Lat33, LonM112) EXCEPT !.success = Some(FALSE)]),
    HttpResponse([Body(Lat33, LonM112) EXCEPT !.success = Some(TRUE)]),
    HttpResponse([Body(Lat33, LonM112) EXCEPT !.success = Some(FALSE),
                                              !.location = None]),
    HttpThrow(AxiosError("ECONNABORTED", 401, Text("timeout of 15000ms exceeded"))),
    HttpThrow(AxiosError("ERR_BAD_REQUEST", 429, Text("Request failed with status code 429"))),
    HttpThrow(AxiosError("ERR_BAD_REQUEST", 403, Text("Request failed with status code 403"))),
    HttpThrow(AxiosError("ERR_BAD_REQUEST", 404, Text("Request failed with status code 404"))),
    HttpThrow(AxiosError("ERR_BAD_RESPONSE", 500, Text("Request failed with status code 500"))) }

InitWeather ==
  /\ apiKey \in WeatherKeys
  /\ store = {}
  /\ nextId = 0
  /\ clock = 0
  /\ returned = {}
  /\ last = Idle
  /\ HarnessIdle
  /\ session = NoSessions

\* lookups keep no state in the service: each is observed on its own, the
\* clock ticking once per lookup
MaxLookups == 1

CallGetCurrentWeather(city, state, zipCode, http, rnd) ==
  /\ clock < MaxLookups
  /\ last' = getCurrentWeatherRun(apiKey, city, state, zipCode, http, rnd, clock)
  /\ clock' = clock + 1
  /\ UNCHANGED <<apiKey, store, nextId, returned, harnessVars, session>>

CallTestConnection(http) ==
  /\ clock < MaxLookups
  /\ last' = testConnectionRun(apiKey, http)
  /\ clock' = clock + 1
  /\ UNCHANGED <<apiKey, store, nextId, returned, harnessVars, session>>

NextWeather ==
  \/ \E city \in WeatherCities, state \in WeatherStates, zipCode \in WeatherZips :
       \E http \in (IF IsMockKey(apiKey) THEN {NoHttp} ELSE WeatherHttpOutcomes),
          rnd \in (IF IsMockKey(apiKey) THEN RandomDraws ELSE {NoDraws}) :
         CallGetCurrentWeather(city, state, zipCode, http, rnd)
  \/ \E http \in (IF IsMockKey(apiKey) THEN {NoHttp} ELSE WeatherHttpOutcomes) :
       CallTestConnection(http)

SpecWeather == InitWeather /\ [][NextWeather]_vars

(***************************************************************************)
(* The read operations over tables of stored records: each table holds     *)
(* what createProperty stored for a run of sample submissions.             *)
(***************************************************************************)
Zip10001 == <<"1","0","0","0","1">>

SeedInputs ==
  << Submission(Phoenix, MainSt, AZ, Zip85001),
     Submission(Miami, MainSt, <<"F","L">>, Zip33101),
     Submission(NewYork, MainSt, <<"N","Y">>, Zip10001) >>

\* the row the n-th createProperty of the run stored
SeedRow(n) ==
  createPropertyRun("mock", SeedInputs[(n % 3) + 1], NoHttp, NoDraws, None,
                    n, n - 1).inserted[1]

TableOf(n) == {SeedRow(i) : i \in 1..n}

SmallTable == 4
BigTable == 101

Tables == {TableOf(0), TableOf(SmallTable), TableOf(BigTable)}

NoFilters ==
  [city |-> Undefined, state |-> Undefined, zipCode |-> Undefined,
   sortBy |-> None, sortOrder |-> None, limit |-> None, offset |-> None]

WhereSamples ==
  { [NoFilters EXCEPT !.city = c, !.state = st, !.zipCode = z] :
      c \in {Undefined, <<>>, <<"p","h","o">>, toUpperCase(Phoenix), <<"i">>},
      st \in {Undefined, <<"a","z">>, <<"F","L">>, <<"a","z"," ">>},
      z \in {Undefined, Zip85001} }

SortSamples ==
  { [key |-> None, order |-> None], [key |-> Some("createdAt"), order |-> Some("asc")],
    [key |-> Some("state"), order |-> None] }

LimitSamples == {None, Some(0), Some(1), Some(100), Some(200), Some(-1), Some(-101)}

OffsetSamples == {None, Some(60)}

PageSamples ==
  { [NoFilters EXCEPT !.limit = l, !.offset = o] :
      l \in LimitSamples, o \in OffsetSamples }
  \cup { [NoFilters EXCEPT !.sortBy = s.key, !.sortOrder = s.order, !.limit = l] :
           s \in SortSamples, l \in {None, Some(-1)} }

MixedSamples ==
  { [NoFilters EXCEPT !.city = <<"i">>, !.sortBy = Some("city"), !.sortOrder = o,
                      !.limit = l, !.offset = Some(1)] :
      l \in {Some(2), Some(-2)}, o \in {Some("asc"), Some("desc")} }

ListFilters == WhereSamples \cup PageSamples \cup MixedSamples

TieOrders == {"older", "newer"}

InitList ==
  /\ apiKey = "mock"
  /\ store \in Tables
  /\ nextId = Cardinality(store)
  /\ clock = Cardinality(store)
  /\ returned = {}
  /\ last = Idle
  /\ HarnessIdle
  /\ session = NoSessions

\* the reads keep no state in the service: each is observed on its own, the
\* clock ticking once per read
MaxQueries == 1

getProperties(filters, dbError, tie) ==
  /\ clock < nextId + MaxQueries
  /\ last' = getPropertiesRun(store, filters, dbError, tie)
  /\ clock' = clock + 1
  /\ UNCHANGED <<apiKey, store, nextId, returned, harnessVars, session>>

getPropertiesCount(filters, dbError) ==
  /\ clock < nextId + MaxQueries
  /\ last' = getPropertiesCountRun(store, filters, dbError)
  /\ clock' = clock + 1
  /\ UNCHANGED <<apiKey, store, nextId, returned, harnessVars, session>>

NextList ==
  \/ \E filters \in ListFilters, dbError \in DbOutcomes :
       \E tie \in (IF Default(filters.sortBy, "createdAt") = "createdAt" \/ dbError # None
                    THEN {"older"} ELSE TieOrders) :
         getProperties(filters, dbError, tie)
  \/ \E filters \in WhereSamples, dbError \in DbOutcomes :
       getPropertiesCount(filters, dbError)

SpecList == InitList /\ [][NextList]_vars

(***************************************************************************)
(* The resolvers as a state machine: one client calls them one at a time,  *)
(* each call running the service operation to completion and mapping its   *)
(* outcome.                                                                *)
(***************************************************************************)
\* the client that calls: the first one
Client == CHOOSE c \in Callers : \A d \in Callers : c <= d

NoArgs ==
  [city |-> Undefined, state |-> Undefined, zipCode |-> Undefined,
   sortBy |-> None, sortOrder |-> None, limit |-> None, offset |-> None]

PropertiesArgs ==
  { NoArgs,
    [NoArgs EXCEPT !.city = <<"i">>, !.sortBy = Some("CITY"), !.sortOrder = Some("ASC"),
                   !.limit = Some(0)] }

ApiCreateInputs ==
  { Submission(Sp \o Phoenix \o Sp, MainSt \o Sp, Sp \o <<"a","z">>, Zip85001 \o Sp),
    Submission(Phoenix, Undefined, AZ, Zip85001) }

ApiHttpOutcomes ==
  { HttpResponse(Body(Lat33, LonM112)),
    HttpResponse(Body(Invalid, Invalid)),
    HttpThrow(AxiosError("ECONNABORTED", 0, Text("timeout of 15000ms exceeded"))) }

\* the storage collaborator may reject with any message, the service's own
\* 'Property not found' included
ApiDbFailures == {Text("Database error"), Text("Property not found")}

ApiDbOutcomes == {None} \cup {Some(m) : m \in ApiDbFailures}

InitResolvers ==
  /\ apiKey \in ApiKeys
  /\ store = {}
  /\ nextId = 0
  /\ clock = 0
  /\ returned = {}
  /\ last = Idle
  /\ HarnessIdle
  /\ session = NoSessions

QueryProperties(args, dbError) ==
  /\ Cardinality(store) <= nextId
  /\ \E run \in {getPropertiesRun(store, PropertiesFilters(args), dbError, "older")} :
       /\ last' = run
       /\ session' = [session EXCEPT ![Client] = propertiesResolver(args, run)]
  /\ UNCHANGED <<apiKey, store, nextId, clock, returned, harnessVars>>

QueryProperty(id, dbError) ==
  /\ Cardinality(store) <= nextId
  /\ \E run \in {getPropertyByIdRun(store, id, dbError)} :
       /\ last' = run
       /\ session' = [session EXCEPT ![Client] = propertyResolver([id |-> id], run)]
  /\ UNCHANGED <<apiKey, store, nextId, clock, returned, harnessVars>>

MutationCreateProperty(input, http, rnd, dbError) ==
  /\ nextId <= MaxCreates
  /\ \E run \in {createPropertyRun(apiKey, input, http, rnd, dbError,
                                    nextId + 1, clock)} :
       /\ run.inserted # None => nextId < MaxCreates
       /\ store' = TableAfterCreate(store, run, nextId + 1, clock)
       /\ nextId' = IF run.inserted # None THEN nextId + 1 ELSE nextId
       /\ clock' = IF run.inserted # None THEN clock + 1 ELSE clock
       /\ returned' = IF run.threw THEN returned ELSE returned \cup {run.value[1]}
       /\ last' = run
       /\ session' = [session EXCEPT
                        ![Client] = createPropertyResolver([input |-> input], run)]
  /\ UNCHANGED <<apiKey, harnessVars>>

MutationDeleteProperty(id, findError, deleteError) ==
  /\ Cardinality(store) <= nextId
  /\ \E looked \in {deleteLookupRun(store, id, findError)} :
       \E run \in {IF looked.done THEN looked
                   ELSE deleteFinishRun(store, looked, deleteError)} :
         /\ store' = IF run.threw THEN store
                     ELSE {row \in store : row.id # trim(id)}
         /\ returned' = IF run.threw THEN returned
                        ELSE {row \in returned : row.id # trim(id)}
         /\ last' = run
         /\ session' = [session EXCEPT
                          ![Client] = deletePropertyResolver([id |-> id], run)]
  /\ UNCHANGED <<apiKey, nextId, clock, harnessVars>>

NextResolvers ==
  \/ \E args \in PropertiesArgs, dbError \in ApiDbOutcomes :
       QueryProperties(args, dbError)
  \/ \E id \in IdInputs, dbError \in ApiDbOutcomes : QueryProperty(id, dbError)
  \/ \E input \in ApiCreateInputs :
       \E http \in (IF IsValidInput(input) /\ ~IsMockKey(apiKey)
                    THEN ApiHttpOutcomes ELSE {NoHttp}),
          dbError \in (IF IsValidInput(input) THEN ApiDbOutcomes ELSE {None}) :
         MutationCreateProperty(input, http, NoDraws, dbError)
  \/ \E id \in IdInputs, findError \in ApiDbOutcomes, deleteError \in ApiDbOutcomes :
       MutationDeleteProperty(id, findError, deleteError)

SpecResolvers == InitResolvers /\ [][NextResolvers]_vars

(***************************************************************************)
(* Concurrent deletes: each client calls Mutation.deleteProperty once. The *)
(* service awaits the lookup and then the delete, and the calls of         *)
(* different clients interleave at these two awaits.                       *)
(***************************************************************************)
RaceIds == {MakeId(1), Sp \o MakeId(1), MakeId(2)}

InitRace ==
  /\ apiKey = "mock"
  /\ store = TableOf(1)
  /\ nextId = 1
  /\ clock = 1
  /\ returned = {}
  /\ last = Idle
  /\ HarnessIdle
  /\ session = NoSessions

\* the call up to the await of the delete
DeleteLookup(c, id, findError) ==
  /\ session[c].op = "none"
  /\ \E looked \in {deleteLookupRun(store, id, findError)} :
       /\ session' = [session EXCEPT
            ![c] = IF looked.done THEN deletePropertyResolver([id |-> id], looked)
                   ELSE ResolverCall("Mutation.deleteProperty", <<[id |-> id]>>, looked)]
       /\ last' = IF looked.done THEN looked ELSE last
  /\ UNCHANGED <<apiKey, store, nextId, clock, returned, harnessVars>>

\* the call from the delete on
DeleteFinish(c, deleteError) ==
  /\ session[c].op = "Mutation.deleteProperty"
  /\ ~session[c].done
  /\ \E run \in {deleteFinishRun(store, session[c].service, deleteError)} :
       /\ store' = IF run.threw THEN store
                   ELSE {row \in store : row.id # trim(run.args[1])}
       /\ last' = run
       /\ session' = [session EXCEPT
                        ![c] = deletePropertyResolver(session[c].args[1], run)]
  /\ UNCHANGED <<apiKey, nextId, clock, returned, harnessVars>>

NextRace ==
  \/ \E c \in Callers, id \in RaceIds, findError \in DbOutcomes :
       DeleteLookup(c, id, findError)
  \/ \E c \in Callers, deleteError \in DbOutcomes : DeleteFinish(c, deleteError)

SpecRace == InitRace /\ [][NextRace]_vars

(***************************************************************************)
(* Claims about the validator.                                             *)
(***************************************************************************)
Range(f) == {f[i] : i \in DOMAIN f}

AllWhiteSpace(x) == \A i \in 1..Len(x) : x[i] \in WhiteSpace

CityViolated(x) == x.city = Undefined \/ AllWhiteSpace(x.city)
StreetViolated(x) == x.street = Undefined \/ AllWhiteSpace(x.street)
StateViolated(x) == x.state = Undefined \/ x.state \notin US_STATES
ZipViolated(x) ==
  \/ x.zipCode = Undefined
  \/ Len(x.zipCode) # 5
  \/ \E i \in 1..Len(x.zipCode) : x.zipCode[i] \notin Range(DigitChars)

ExpectedErrors(x) ==
  (IF CityViolated(x) THEN <<"City is required">> ELSE <<>>)
  \o (IF StreetViolated(x) THEN <<"Street is required">> ELSE <<>>)
  \o (IF StateViolated(x)
      THEN <<"Valid US state abbreviation is required (e.g., CA, NY, TX)">> ELSE <<>>)
  \o (IF ZipViolated(x) THEN <<"Valid 5-digit zip code is required">> ELSE <<>>)

\* C7: validatePropertyInput checks all four rules without short-circuiting:
\* the error list holds exactly one message per violated rule, in the order
\* city, street, state, zipCode, and no others; isValid is true exactly when
\* the list is empty; a submission violating all four rules yields four messages.
C7_AllRulesReported ==
  verdict # <<>> =>
    LET x == verdict[1].input
        r == verdict[1].result
    IN /\ r.errors = ExpectedErrors(x)
       /\ r.isValid = (r.errors = <<>>)
       /\ (CityViolated(x) /\ StreetViolated(x) /\ StateViolated(x) /\ ZipViolated(x)
             => Len(r.errors) = 4)

C7_Witness ==
  /\ verdict # <<>>
  /\ Len(verdict[1].result.errors) = 4
  /\ ~verdict[1].result.isValid

LastTwo(a, b) ==
  /\ Len(applied) >= 2
  /\ applied[Len(applied) - 1] = a
  /\ applied[Len(applied)] = b

\* C8 as stated: applied to a not-yet-normalized submission, the validator
\* reports no state error for any state whose uppercase form is in US_STATES.
C8_ValidatorCaseInsensitive ==
  verdict # <<>> =>
    LET x == verdict[1].input
    IN (x.state # Undefined /\ toUpperCase(x.state) \in US_STATES)
         => StateRequired \notin Range(verdict[1].result.errors)

\* C8 as amended: the state rule is case-insensitive only through
\* normalization. validatePropertyInput applied to sanitizeInput(x) reports no
\* state error for any x whose state, uppercased and trimmed, is in US_STATES;
\* applied directly it is case-sensitive: it reports the state error for every
\* state that is not literally a member of US_STATES, such as "az".
C8_CaseInsensitiveViaSanitize ==
  /\ (LastTwo("sanitizeInput", "validatePropertyInput")
        /\ prev.state # Undefined /\ trim(toUpperCase(prev.state)) \in US_STATES)
       => /\ verdict[1].input = sub
          /\ StateRequired \notin Range(verdict[1].result.errors)
  /\ verdict # <<>> =>
       (verdict[1].input.state \notin US_STATES
          => StateRequired \in Range(verdict[1].result.errors))

C8_Witness ==
  /\ LastTwo("sanitizeInput", "validatePropertyInput")
  /\ prev.state = Sp \o <<"a","z">> \o Sp
  /\ sub.state = AZ
  /\ StateRequired \notin Range(verdict[1].result.errors)

\* C9: sanitizeInput is idempotent: sanitizing an already sanitized submission
\* (missing fields included) yields the same submission, field by field.
C9_SanitizeIdempotent ==
  LastTwo("sanitizeInput", "sanitizeInput") =>
    /\ sub.city = prev.city
    /\ sub.street = prev.street
    /\ sub.state = prev.state
    /\ sub.zipCode = prev.zipCode

C9_Witness ==
  /\ applied = <<"sanitizeInput", "sanitizeInput">>
  /\ orig.city = Undefined
  /\ orig.zipCode = Sp \o Sp \o Zip85001 \o Sp
  /\ orig.state = <<"f","l">> \o Sp \o Sp
  /\ sub = prev
  /\ sub # orig

(***************************************************************************)
(* Claims about createProperty and getPropertyById.                        *)
(***************************************************************************)
\* the pieces of errors.join(sep), written out position by position
Joined(errors, sep) ==
  IF errors = <<>> THEN <<>>
  ELSE [i \in 1..(2 * Len(errors) - 1) |->
          IF i % 2 = 1 THEN errors[(i + 1) \div 2] ELSE sep]

CallsNamed(run, name) == {i \in 1..Len(run.calls) : run.calls[i].call = name}

NoWeatherCall(run) == CallsNamed(run, "weatherService.getCurrentWeather") = {}
NoHttpRequest(run) == CallsNamed(run, "axios.get") = {}
NoStorageCall(run) ==
  \A i \in 1..Len(run.calls) :
    run.calls[i].call \notin {"prisma.property.create", "prisma.property.findUnique",
                              "prisma.property.delete"}
NoInsert(run) == CallsNamed(run, "prisma.property.create") = {}

Created == last.op = "createProperty"
Submitted == last.args[1]
Sanitized == sanitizeInput(Submitted)
SnapshotReturned == Created /\ last.weather # None /\ ~last.weather[1].threw
Snapshot == last.weather[1].value

IsFinite(n) == n.kind = "finite"

\* C1: for every submission whose sanitized form violates at least one rule,
\* createProperty fails with the single message 'Validation failed: ' followed
\* by all violation messages joined by ', ', and performs no weather lookup and
\* no storage call.
C1_ValidationFailureAborts ==
  (Created /\ ExpectedErrors(Sanitized) # <<>>) =>
    /\ last.threw
    /\ last.message = <<"Validation failed: ">> \o Joined(ExpectedErrors(Sanitized), ", ")
    /\ NoWeatherCall(last)
    /\ NoHttpRequest(last)
    /\ NoStorageCall(last)
    /\ last.inserted = None

C1_Witness ==
  /\ Created
  /\ last.threw
  /\ Len(ExpectedErrors(Sanitized)) = 4
  /\ Len(last.message) = 8
  /\ last.calls = <<>>

\* C2: for every valid submission, if the weather lookup fails with cause
\* message m, createProperty fails with 'Failed to create property: m' and no
\* storage insert is issued.
C2_WeatherFailureWrapped ==
  (Created /\ ExpectedErrors(Sanitized) = <<>>
     /\ last.weather # None /\ last.weather[1].threw) =>
    /\ last.threw
    /\ last.message = <<"Failed to create property: ">> \o last.weather[1].error.message
    /\ NoInsert(last)
    /\ last.inserted = None

C2_Witness ==
  /\ Created
  /\ last.weather # None
  /\ last.weather[1].threw
  /\ last.message = <<"Failed to create property: ",
                      "Weatherstack API timeout - please try again">>
  /\ NoInsert(last)

\* C3: createProperty issues a storage insert only if both the latitude and
\* the longitude of the snapshot's location parsed to finite numbers; whenever
\* either parses to NaN, +Infinity or -Infinity it fails with 'Failed to create
\* property: Invalid coordinates received from weather service' and no insert
\* occurs, so no stored record ever has a non-finite lat or long.
C3_InsertOnlyFiniteCoordinates ==
  /\ \A row \in store : IsFinite(row.lat) /\ IsFinite(row.long)
  /\ (SnapshotReturned
        /\ (~IsFinite(parseFloat(Snapshot.location[1].lat))
              \/ ~IsFinite(parseFloat(Snapshot.location[1].lon)))) =>
       /\ last.threw
       /\ last.message = <<"Failed to create property: ",
                           "Invalid coordinates received from weather service">>
       /\ NoInsert(last)

\* C4: after a createProperty call that ends in an error (validation, weather,
\* coordinate or storage failure) the set of stored records is exactly what it
\* was before the call; after a successful call it has grown by exactly one
\* record.
C4_StoreFrame ==
  [][last'.op = "createProperty" =>
       IF last'.threw
       THEN store' = store
       ELSE /\ store \subseteq store'
            /\ Cardinality(store') = Cardinality(store) + 1]_vars

C4_Witness ==
  /\ Created
  /\ last.threw
  /\ ~NoInsert(last)
  /\ last.message = <<"Failed to create property: ", "Database error">>
  /\ Cardinality(store) = 1

\* C5: on a successful createProperty the weather lookup is invoked with the
\* sanitized (city, state, zipCode); the inserted record's city, street, state
\* and zipCode equal the sanitized submission, its lat and long equal the
\* parsed coordinates of the snapshot, and its weatherData is the snapshot the
\* adapter returned, unchanged.
C5_InsertedRecord ==
  (Created /\ ~last.threw) =>
    /\ last.calls[1] = [call |-> "weatherService.getCurrentWeather",
                        args |-> <<Sanitized.city, Sanitized.state, Sanitized.zipCode>>]
    /\ CallsNamed(last, "weatherService.getCurrentWeather") = {1}
    /\ last.inserted # None
    /\ last.inserted[1] \in store
    /\ last.value = last.inserted
    /\ LET row == last.inserted[1]
       IN /\ row.city = Sanitized.city
          /\ row.street = Sanitized.street
          /\ row.state = Sanitized.state
          /\ row.zipCode = Sanitized.zipCode
          /\ SnapshotReturned
          /\ row.lat = parseFloat(Snapshot.location[1].lat)
          /\ row.long = parseFloat(Snapshot.location[1].lon)
          /\ row.weatherData = Snapshot

C5_Witness ==
  /\ Created
  /\ ~last.threw
  /\ Submitted.city = Sp \o Phoenix \o Sp
  /\ Submitted.state = Sp \o <<"a","z">>
  /\ last.inserted[1].city = Phoenix
  /\ last.inserted[1].state = AZ
  /\ last.inserted[1].lat = Finite(33448)
  /\ last.inserted[1].long = Finite(-112074)

\* C6: round trip. Under mock mode, getPropertyById called with the identifier
\* createProperty returned, with no delete of that record in between, returns
\* a record equal in all fields to the one createProperty returned.
C6_RoundTrip ==
  (IsMockKey(apiKey) /\ last.op = "getPropertyById" /\ ~last.threw) =>
    \A created \in returned :
      created.id = last.args[1] => last.value = Some(created)

C6_Witness ==
  /\ apiKey = "mock"
  /\ last.op = "getPropertyById"
  /\ ~last.threw
  /\ last.args[1] = MakeId(2)
  /\ last.value # None
  /\ last.value[1] \in returned
  /\ last.value[1].id = MakeId(2)
  /\ Cardinality(store) = 2

\* C10: with the configured credential equal to "mock", createProperty for a
\* valid submission never performs an HTTP request, and the stored record's
\* weather snapshot has location name equal to the sanitized city and region
\* equal to the sanitized state.
C10_MockKeyNoRequest ==
  apiKey = "mock" =>
    /\ (Created /\ ExpectedErrors(Sanitized) = <<>>) =>
         /\ NoHttpRequest(last)
         /\ last.inserted # None =>
              /\ last.inserted[1] \in store
              /\ last.inserted[1].weatherData.location[1].name = Sanitized.city
              /\ last.inserted[1].weatherData.location[1].region = Sanitized.state
    /\ \A row \in store :
         /\ row.weatherData.location[1].name = row.city
         /\ row.weatherData.location[1].region = row.state

C10_Witness ==
  /\ apiKey = "mock"
  /\ Created
  /\ ~last.threw
  /\ Submitted.city = Sp \o Phoenix \o Sp
  /\ NoHttpRequest(last)
  /\ last.inserted[1].weatherData.location[1].name = Phoenix
  /\ last.inserted[1].weatherData.location[1].region = AZ

(***************************************************************************)
(* Claims about getCurrentWeather.                                         *)
(***************************************************************************)
Looked == last.op = "getCurrentWeather"
AskedCity == last.args[1]
AskedState == last.args[2]
AskedZip == last.args[3]
AskedQuery == AskedCity \o <<", ">> \o AskedState \o <<" ">> \o AskedZip
Reply == last.http[1]
Responded == Looked /\ last.http # None /\ Reply.kind = "response"
Refused == Looked /\ last.http # None /\ Reply.kind = "throw"

OneHttpRequest(run) ==
  run.calls = <<[call |-> "axios.get", args |-> <<AskedQuery>>]>>

\* the snapshot is the synthetic one for the place asked about
SyntheticSnapshot(run) ==
  /\ ~run.threw
  /\ run.value # None
  /\ LET snapshot == run.value[1]
     IN /\ snapshot.error = None
        /\ snapshot.request[1].query = AskedQuery
        /\ snapshot.location[1].name = AskedCity
        /\ snapshot.location[1].region = AskedState
        /\ snapshot.location[1].country = "United States of America"
        /\ snapshot.current[1].weather_code = 113
        /\ snapshot.current[1].weather_descriptions = <<"Sunny">>

ModeSelectedBy(sentinels) ==
  Looked =>
    IF apiKey \in sentinels
    THEN /\ last.calls = <<>>
         /\ last.http = None
         /\ SyntheticSnapshot(last)
    ELSE /\ OneHttpRequest(last)
         /\ last.http # None

\* C11 as stated: when the configured credential equals "demo" or "mock",
\* getCurrentWeather returns the synthetic snapshot and performs no HTTP
\* request; for every other credential it performs a live lookup.
C11_SentinelDemoOrMock == ModeSelectedBy({"demo", "mock"})

\* C11 as amended: the two sentinel credentials are "demo_key" and "mock"
\* (compared exactly, case included). With either, getCurrentWeather returns
\* the synthetic snapshot and performs no HTTP request; with every other
\* credential, "demo" and "Mock" included, it performs a live lookup with
\* exactly one HTTP request.
C11_SentinelDemoKeyOrMock == ModeSelectedBy({"demo_key", "mock"})

C11_Witness ==
  /\ Looked
  /\ apiKey = "demo"
  /\ OneHttpRequest(last)
  /\ last.threw
  /\ last.message = <<"Unauthorized - Invalid Weatherstack API key">>

\* a code of three digits in decimal
ThreeDigits(n) ==
  <<DigitChars[(n \div 100) + 1], DigitChars[((n \div 10) % 10) + 1],
    DigitChars[(n % 10) + 1]>>

ExpectedProviderMessage(code, info) ==
  CASE code = 101 -> <<"Invalid Weatherstack API key">>
    [] code = 429 -> <<"API request limit reached for this month">>
    [] code = 601 -> <<"Invalid location: ">> \o AskedQuery
    [] code = 615 -> <<"Weatherstack API request failed">>
    [] OTHER -> <<"Weatherstack API error (">> \o ThreeDigits(code) \o <<"): ">> \o info

\* C12: in live mode, a response body carrying an error object makes the lookup
\* fail with a message determined by the error code: 101 the invalid API key
\* message, 429 the monthly request limit, 601 'Invalid location: <query>',
\* 615 a generic request failure, every other code a message holding that
\* code in decimal; this holds whether or not the body has the current and
\* location sections or a success flag (the error check comes first), and the
\* error thrown is a plain error the transport-error handler leaves as it is.
C12_ProviderErrorMessages ==
  (Responded /\ Reply.data.error # None) =>
    /\ last.threw
    /\ last.value = None
    /\ last.message = ExpectedProviderMessage(Reply.data.error[1].code,
                                              Reply.data.error[1].info)
    /\ last.weather[1].error.isError
    /\ ~last.weather[1].error.isAxios

C12_Witness ==
  /\ Responded
  /\ Reply.data.error # None
  /\ Reply.data.error[1].code = 999
  /\ Reply.data.current # None
  /\ Reply.data.location # None
  /\ last.threw
  /\ last.message = <<"Weatherstack API error (", "9", "9", "9", "): ", "odd">>

ExpectedTransportMessage(error) ==
  IF error.code = "ECONNABORTED" THEN <<"Weatherstack API timeout - please try again">>
  ELSE CASE error.status = 401 -> <<"Unauthorized - Invalid Weatherstack API key">>
         [] error.status = 429 -> <<"Too many requests - Weatherstack rate limit exceeded">>
         [] error.status = 403 -> <<"Forbidden - Current plan does not support this feature">>
         [] error.status = 404 -> <<"Weatherstack API endpoint not found">>
         [] OTHER -> <<"Weatherstack service error: ">> \o error.message

\* C13: on a failed HTTP call in live mode the failure is classified: a timeout
\* (code ECONNABORTED) has its own message and wins over any status code; then
\* status 401 is the invalid credential, 429 the rate limit, 403 the plan that
\* does not support the feature, 404 the endpoint not found; any other
\* transport error is 'Weatherstack service error: <underlying message>'; and a
\* non-transport exception is rethrown unchanged.
C13_TransportClassification ==
  Refused =>
    /\ last.threw
    /\ last.value = None
    /\ IF Reply.thrown.isAxios
       THEN /\ last.message = ExpectedTransportMessage(Reply.thrown)
            /\ ~last.weather[1].error.isAxios
       ELSE last.weather[1].error = Reply.thrown

C13_Witness ==
  /\ Refused
  /\ Reply.thrown.isAxios
  /\ Reply.thrown.code = "ECONNABORTED"
  /\ Reply.thrown.status = 401
  /\ last.message = <<"Weatherstack API timeout - please try again">>

NoCurrentMessage == <<"No current weather data returned from Weatherstack API">>
NoLocationMessage == <<"No location data returned from Weatherstack API">>

\* C14 as stated: in live mode, a response without an error object that lacks
\* the current section fails with the no-current-data message, one that has
\* the current section but lacks the location section fails with the
\* no-location-data message, and a snapshot is returned only when both
\* sections are present, and is then the response body unchanged.
C14_MissingSections ==
  (Responded /\ Reply.data.error = None) =>
    /\ Reply.data.current = None
         => last.threw /\ last.message = NoCurrentMessage
    /\ (Reply.data.current # None /\ Reply.data.location = None)
         => last.threw /\ last.message = NoLocationMessage
    /\ ~last.threw
         => /\ Reply.data.current # None
            /\ Reply.data.location # None
            /\ last.value = <<Reply.data>>

\* C14 as amended: the two missing-section failures apply to a response
\* without an error object whose success flag is not false. A response
\* without an error object whose success flag is false fails with
\* 'Weatherstack API returned unsuccessful response' whatever sections it has.
\* A snapshot is returned exactly when there is no error object, the success
\* flag is not false and both sections are present, and it is then the
\* response body unchanged.
C14_MissingSectionsUnlessUnsuccessful ==
  (Responded /\ Reply.data.error = None) =>
    /\ Reply.data.success = <<FALSE>>
         => /\ last.threw
            /\ last.message = <<"Weatherstack API returned unsuccessful response">>
    /\ (Reply.data.success # <<FALSE>> /\ Reply.data.current = None)
         => last.threw /\ last.message = NoCurrentMessage
    /\ (Reply.data.success # <<FALSE>> /\ Reply.data.current # None
          /\ Reply.data.location = None)
         => last.threw /\ last.message = NoLocationMessage
    /\ (Reply.data.success # <<FALSE>> /\ Reply.data.current # None
          /\ Reply.data.location # None)
         => ~last.threw /\ last.value = <<Reply.data>>

C14_Witness ==
  /\ Responded
  /\ Reply.data.error = None
  /\ Reply.data.success = <<FALSE>>
  /\ Reply.data.current # None
  /\ Reply.data.location = None
  /\ last.threw
  /\ last.message = <<"Weatherstack API returned unsuccessful response">>

\* the coordinates of the sample cities, in thousandths, computed by hand from
\* the 32-bit hash of the lowercased name
ExpectedCoordinates(lowered) ==
  CASE lowered = <<>> -> [lat |-> 24000, long |-> -125000]
    [] lowered = <<"p","h","o","e","n","i","x">> -> [lat |-> 41321, long |-> -105679]
    [] lowered = <<"m","i","a","m","i">> -> [lat |-> 37545, long |-> -76455]
    [] lowered = <<"a","l","b","u","q","u","e","r","q","u","e">>
         -> [lat |-> 47366, long |-> -66634]
    [] lowered = <<"n","e","w"," ","y","o","r","k">> -> [lat |-> 27759, long |-> -120241]

\* C15: for every city string (the empty string and strings long enough for
\* the 32-bit hash to wrap to negative values included) the synthetic
\* latitude lies in [24, 49) and the longitude in [-125, -66), and both depend
\* only on the lowercased city: the same city in any letter case, with any
\* state or zip, yields the same coordinates.
C15_SyntheticCoordinates ==
  (Looked /\ last.http = None /\ ~last.threw) =>
    LET lat == parseFloat(last.value[1].location[1].lat)
        long == parseFloat(last.value[1].location[1].lon)
        expected == ExpectedCoordinates(toLowerCase(AskedCity))
    IN /\ IsFinite(lat)
       /\ IsFinite(long)
       /\ 24 * 1000 <= lat.milli /\ lat.milli < 49 * 1000
       /\ -125 * 1000 <= long.milli /\ long.milli < -66 * 1000
       /\ lat.milli = expected.lat
       /\ long.milli = expected.long

C15_Witness ==
  /\ Looked
  /\ last.http = None
  /\ AskedCity = toUpperCase(Phoenix)
  /\ AskedState = <<"F","L">>
  /\ last.value[1].location[1].lat = <<"4","1",".","3","2","1">>
  /\ last.value[1].location[1].lon = <<"-","1","0","5",".","6","7","9">>

(***************************************************************************)
(* Claims about getProperties and getPropertiesCount.                      *)
(***************************************************************************)
Listed == last.op = "getProperties" /\ ~last.threw
Counted == last.op = "getPropertiesCount" /\ ~last.threw
Filters == last.args[1]
Result == last.value[1]
QuerySent == last.calls[1].args[1]

AbsentOrEmpty(x) == x = Undefined \/ x = <<>>

\* needle occurs in hay when letter case is ignored
OccursIgnoringCase(hay, needle) ==
  \E i \in 1..(Len(hay) - Len(needle) + 1) :
    \A j \in 1..Len(needle) : LowerChar(hay[i + j - 1]) = LowerChar(needle[j])

SatisfiesFilters(row, f) ==
  /\ AbsentOrEmpty(f.city) \/ OccursIgnoringCase(row.city, f.city)
  /\ AbsentOrEmpty(f.state) \/ row.state = toUpperCase(f.state)
  /\ AbsentOrEmpty(f.zipCode) \/ row.zipCode = f.zipCode

Matching == {row \in store : SatisfiesFilters(row, Filters)}

PageSize ==
  IF Filters.limit = None THEN 50
  ELSE IF Filters.limit[1] > 100 THEN 100 ELSE Filters.limit[1]

Skipped == IF Filters.offset = None THEN 0 ELSE Filters.offset[1]

SortKey == IF Filters.sortBy = None THEN "createdAt" ELSE Filters.sortBy[1]
Descending == Filters.sortOrder = None \/ Filters.sortOrder[1] = "desc"

KeyOf(row) ==
  CASE SortKey = "createdAt" -> <<row.createdAt>>
    [] SortKey = "city" -> row.city
    [] SortKey = "state" -> row.state

\* q's sort key is strictly ahead of r's in the direction asked for
KeyAhead(q, r) ==
  LET less(a, b) == IF SortKey = "createdAt" THEN a.createdAt < b.createdAt
                    ELSE StrLess(KeyOf(a), KeyOf(b))
  IN IF Descending THEN less(r, q) ELSE less(q, r)

\* row can stand at position p of the matching records ordered by the sort
\* key: fewer than p records are strictly ahead of it, and at least p are not
\* behind it
CanStandAt(row, p) ==
  /\ Cardinality({q \in Matching : KeyAhead(q, row)}) < p
  /\ Cardinality({q \in Matching : ~KeyAhead(row, q)}) >= p

\* C16: for every limit value passed to getProperties (absent, 0, negative, or
\* above 100) the list returned holds at most 100 records even when more
\* records match; when limit is absent the page size is 50, and limit 200 is
\* clamped to 100.
C16_AtMostHundred ==
  Listed =>
    /\ Len(Result) <= 100
    /\ Filters.limit = None => QuerySent.take = 50
    /\ Filters.limit = <<200>> => QuerySent.take = 100

\* C17: getProperties returns exactly the reference result: the stored records
\* whose city contains the city filter case-insensitively, whose state equals
\* the uppercased state filter and whose zipCode equals the zip filter (an
\* absent or empty filter matches everything), ordered by the sort key and
\* direction (default creation time descending), skipping offset records
\* (default 0) and taking the page size (a limit of 0 or more, at most 100,
\* default 50); records with equal sort keys come in any order; the result is
\* a sequence, possibly empty, never null.
C17_ListReference ==
  (Listed /\ PageSize >= 0) =>
    /\ last.value # None
    /\ Len(Result) = Max(0, Min(PageSize, Cardinality(Matching) - Skipped))
    /\ \A i \in 1..Len(Result) :
         /\ Result[i] \in Matching
         /\ CanStandAt(Result[i], Skipped + i)
         /\ \A j \in 1..Len(Result) : Result[j].id = Result[i].id => j = i

C17_Witness ==
  /\ Listed
  /\ Filters.city = <<"p","h","o">>
  /\ Filters.state = <<"a","z">>
  /\ Filters.zipCode = Zip85001
  /\ Cardinality(store) = BigTable
  /\ Len(Result) = 33
  /\ Result[1].city = Phoenix
  /\ Result[1].createdAt > Result[33].createdAt

\* C18: getPropertiesCount uses the filter semantics of getProperties: for
\* every table and every (city, state, zipCode) filter the count is the number
\* of records getProperties returns for those filters with limit 100 and
\* offset 0, whenever at most 100 records match.
C18_CountAgreesWithList ==
  (Counted /\ Cardinality(Matching) <= 100) =>
    LET listed == getPropertiesRun(store, [Filters EXCEPT !.limit = <<100>>,
                                                          !.offset = <<0>>],
                                   None, "older")
    IN /\ ~listed.threw
       /\ last.value = <<Len(listed.value[1])>>
       /\ last.value = <<Cardinality(Matching)>>

C18_Witness ==
  /\ Counted
  /\ Filters.state = <<"a","z">>
  /\ Filters.city = Undefined
  /\ Filters.zipCode = Undefined
  /\ Cardinality(store) = BigTable
  /\ last.value = <<33>>

(***************************************************************************)
(* Claims about the identifier checks of getPropertyById and               *)
(* deleteProperty.                                                         *)
(***************************************************************************)
BlankId(id) == id = Undefined \/ AllWhiteSpace(id)

RowsWithId(table, id) == {row \in table : row.id = id}

LookupOf(id) == [call |-> "prisma.property.findUnique", args |-> <<trim(id)>>]

\* C19: getPropertyById with an empty or whitespace-only identifier fails with
\* 'Property ID is required' before any storage access; otherwise it looks up
\* the trimmed identifier and, unless the storage lookup itself fails, returns
\* the matching record, or null (not an error) when no record has that
\* identifier; the store is unchanged in every case.
C19_GetByIdContract ==
  [][last'.op = "getPropertyById" =>
       /\ store' = store
       /\ IF BlankId(last'.args[1])
          THEN /\ last'.threw
               /\ last'.message = <<"Property ID is required">>
               /\ last'.calls = <<>>
          ELSE /\ last'.calls = <<LookupOf(last'.args[1])>>
               /\ last'.rejected # <<>> => last'.threw
               /\ last'.rejected = <<>> =>
                    /\ ~last'.threw
                    /\ LET rows == RowsWithId(store, trim(last'.args[1]))
                       IN IF rows = {} THEN last'.value = <<>>
                          ELSE \E row \in rows : last'.value = <<row>>]_vars

C19_Witness ==
  /\ last.op = "getPropertyById"
  /\ last.args[1] = Sp \o MakeId(1) \o Sp
  /\ ~last.threw
  /\ last.calls = <<[call |-> "prisma.property.findUnique", args |-> <<MakeId(1)>>]>>
  /\ last.value # <<>>
  /\ last.value[1].id = MakeId(1)
  /\ last.value[1] \in store

\* C20: deleteProperty on an identifier that has no matching record fails with
\* the distinguishable 'Property not found' error (not a 'Failed to delete
\* property: ...' storage error) and issues no storage delete; deleteProperty
\* on an empty or whitespace-only identifier fails with 'Property ID is
\* required' before any storage access. (No matching record: the existence
\* lookup succeeded and found none.) The store is unchanged in both cases.
C20_DeleteRejections ==
  [][last'.op = "deleteProperty" =>
       IF BlankId(last'.args[1])
       THEN /\ last'.threw
            /\ last'.message = <<"Property ID is required">>
            /\ last'.calls = <<>>
            /\ store' = store
       ELSE ("prisma.property.findUnique" \notin Range(last'.rejected)
               /\ RowsWithId(store, trim(last'.args[1])) = {}) =>
              /\ last'.threw
              /\ last'.message = <<"Property not found">>
              /\ last'.calls = <<LookupOf(last'.args[1])>>
              /\ store' = store]_vars

C20_Witness ==
  /\ last.op = "deleteProperty"
  /\ last.args[1] = MakeId(2)
  /\ Cardinality(store) = 1
  /\ RowsWithId(store, MakeId(2)) = {}
  /\ last.threw
  /\ last.message = <<"Property not found">>
  /\ last.calls = <<[call |-> "prisma.property.findUnique", args |-> <<MakeId(2)>>]>>

(***************************************************************************)
(* Claims about the outcome of deleteProperty.                             *)
(***************************************************************************)
DeleteOf(id) == [call |-> "prisma.property.delete", args |-> <<trim(id)>>]

\* the identifiers the table has handed out whose rows are no longer stored
GoneIds == {MakeId(i) : i \in 1..nextId} \ {row.id : row \in store}

\* C21: deleteProperty returns true only when the existence lookup found the
\* record and the storage delete then succeeded; after a call that returned
\* true the record is absent from the store, so that a later getPropertyById
\* on its identifier returns null and a later deleteProperty on it fails with
\* 'Property not found' (the lookups themselves succeeding); after a call that
\* failed the store is as it was before the call.
C21_DeleteOutcome ==
  [][/\ last'.op = "deleteProperty" =>
          IF last'.threw
          THEN store' = store /\ last'.value = <<>>
          ELSE /\ last'.value = <<TRUE>>
               /\ last'.rejected = <<>>
               /\ last'.calls = <<LookupOf(last'.args[1]), DeleteOf(last'.args[1])>>
               /\ RowsWithId(store, trim(last'.args[1])) # {}
               /\ store' = store \ RowsWithId(store, trim(last'.args[1]))
               /\ trim(last'.args[1]) \in GoneIds'
     /\ (last'.op \in {"getPropertyById", "deleteProperty"}
           /\ ~BlankId(last'.args[1])
           /\ trim(last'.args[1]) \in GoneIds
           /\ last'.rejected = <<>>) =>
          IF last'.op = "getPropertyById"
          THEN ~last'.threw /\ last'.value = <<>>
          ELSE last'.threw /\ last'.message = <<"Property not found">>
     /\ GoneIds \subseteq GoneIds']_vars

\* a second deleteProperty on an identifier whose record was deleted
C21_Witness ==
  /\ last.op = "deleteProperty"
  /\ last.args[1] = MakeId(2)
  /\ nextId = 2
  /\ MakeId(2) \in GoneIds
  /\ Cardinality(store) = 1
  /\ last.threw
  /\ last.message = <<"Property not found">>

(***************************************************************************)
(* Claims about the connection test.                                       *)
(***************************************************************************)
Tested == last.op = "testConnection"

\* C23: testConnection never throws. With the key 'demo_key' or 'mock' it
\* returns true without any HTTP request; with any other key it makes one
\* request for 'New York' and returns true exactly when the response carries
\* no error object and has both the current and the location section; a
\* provider error body, a missing section, a timeout and any other exception
\* all become the return value false.
C23_TestConnectionBoolean ==
  Tested =>
    /\ last.done /\ ~last.threw
    /\ last.message = <<>>
    /\ last.value \in {<<TRUE>>, <<FALSE>>}
    /\ IF apiKey \in {"demo_key", "mock"}
       THEN last.value = <<TRUE>> /\ last.calls = <<>> /\ last.http = <<>>
       ELSE /\ last.calls = <<[call |-> "axios.get", args |-> <<<<"New York">>>>]>>
            /\ last.http # <<>>
            /\ last.value = <<TRUE>> <=>
                 /\ Reply.kind = "response"
                 /\ Reply.data.error = <<>>
                 /\ Reply.data.current # <<>>
                 /\ Reply.data.location # <<>>

\* a timeout of the live request reported as false
C23_Witness ==
  /\ Tested
  /\ apiKey = "live-key"
  /\ Reply.kind = "throw"
  /\ Reply.thrown.code = "ECONNABORTED"
  /\ ~last.threw
  /\ last.value = <<FALSE>>

(***************************************************************************)
(* Claims about the stages of createProperty.                              *)
(***************************************************************************)
\* the positions of the calls named, all before the positions of those named next
AllBefore(run, first, next) ==
  \A i \in CallsNamed(run, first), j \in CallsNamed(run, next) : i < j

\* C24: no retry. Each createProperty call makes at most one weather lookup,
\* the lookup at most one HTTP request, and the call at most one storage
\* insert, in that order; an insert is issued only after a lookup that
\* returned a snapshot. A call that fails throws one error and ends at the
\* step that failed: no call follows a failed lookup, and nothing follows a
\* rejected insert.
C24_NoRetry ==
  Created =>
    /\ last.done
    /\ Cardinality(CallsNamed(last, "weatherService.getCurrentWeather")) <= 1
    /\ Cardinality(CallsNamed(last, "axios.get")) <= 1
    /\ Cardinality(CallsNamed(last, "prisma.property.create")) <= 1
    /\ Len(last.calls) <= 3
    /\ AllBefore(last, "weatherService.getCurrentWeather", "axios.get")
    /\ AllBefore(last, "weatherService.getCurrentWeather", "prisma.property.create")
    /\ AllBefore(last, "axios.get", "prisma.property.create")
    /\ ~NoHttpRequest(last) => ~NoWeatherCall(last)
    /\ ~NoInsert(last) => SnapshotReturned
    /\ last.threw =>
         /\ last.message # <<>>
         /\ last.value = <<>>
         /\ last.inserted = <<>>
         /\ Len(last.rejected) <= 1
         /\ (last.weather # <<>> /\ last.weather[1].threw) =>
              /\ NoInsert(last)
              /\ last.calls[Len(last.calls)].call
                   \in {"weatherService.getCurrentWeather", "axios.get"}
         /\ last.rejected # <<>> =>
              last.calls[Len(last.calls)].call = "prisma.property.create"

\* a live lookup that timed out: one lookup, one request, one failure
C24_Witness ==
  /\ Created
  /\ apiKey = "live-key"
  /\ last.threw
  /\ last.http # <<>>
  /\ last.http[1].kind = "throw"
  /\ Len(last.calls) = 2
  /\ last.calls[2].call = "axios.get"
  /\ last.message = <<"Failed to create property: ",
                      "Weatherstack API timeout - please try again">>

\* the stage at which a failed createProperty call failed
Stage(run) ==
  IF NoWeatherCall(run) THEN "validation"
  ELSE IF run.weather # <<>> /\ run.weather[1].threw THEN "weather"
  ELSE IF run.rejected # <<>> THEN "insert"
  ELSE "coordinates"

FailedCreate(run) == run.op = "createProperty" /\ run.threw

\* the leading literal of the message
Prefix(run) == run.message[1]

\* C25 as stated: validation, weather lookup, coordinate parsing and storage
\* insert failures each carry their own stage-specific prefix, so two failed
\* createProperty calls that failed at different stages have different
\* prefixes.
C25_StagePrefixes ==
  [][(FailedCreate(last) /\ FailedCreate(last') /\ Stage(last) # Stage(last')) =>
       Prefix(last) # Prefix(last')]_vars

\* C25, amended: a validation failure carries the prefix 'Validation failed: '
\* followed by the violations; weather lookup, coordinate and storage insert
\* failures all carry the one prefix of the operation, 'Failed to create
\* property: ', followed by the message of the underlying cause, so the stage
\* among these three shows only in the cause.
C25_OperationPrefix ==
  FailedCreate(last) =>
    CASE Stage(last) = "validation" ->
           last.message = <<"Validation failed: ">> \o Joined(ExpectedErrors(Sanitized), ", ")
      [] Stage(last) = "weather" ->
           last.message = <<"Failed to create property: ">> \o last.weather[1].error.message
      [] Stage(last) = "coordinates" ->
           last.message = <<"Failed to create property: ",
                            "Invalid coordinates received from weather service">>
      [] Stage(last) = "insert" ->
           /\ last.message[1] = "Failed to create property: "
           /\ Tail(last.message) \in DbFailures

\* a rejected insert after a live lookup
C25_Witness ==
  /\ FailedCreate(last)
  /\ apiKey = "live-key"
  /\ Stage(last) = "insert"
  /\ last.message = <<"Failed to create property: ", "Database error">>

(***************************************************************************)
(* Claims about the stored records.                                        *)
(***************************************************************************)
AsciiDigits == {"0", "1", "2", "3", "4", "5", "6", "7", "8", "9"}

\* non-empty, and neither its first nor its last character is whitespace
Trimmed(x) == x # <<>> /\ x[1] \notin WhiteSpace /\ x[Len(x)] \notin WhiteSpace

\* C29: after any sequence of createProperty and deleteProperty calls from an
\* empty store, every stored record has a non-empty city and street without
\* leading or trailing whitespace, a state that is an uppercase member of the
\* US state set, and a zipCode of exactly five ASCII digits.
C29_StoredRecordsValid ==
  \A row \in store :
    /\ Trimmed(row.city)
    /\ Trimmed(row.street)
    /\ row.state \in US_STATES
    /\ \A i \in 1..Len(row.state) : IndexIn(UpperLetters, row.state[i]) > 0
    /\ Len(row.zipCode) = 5
    /\ \A i \in 1..5 : row.zipCode[i] \in AsciiDigits

\* two records created, one from a padded lower-case submission, one deleted
C29_Witness ==
  /\ last.op = "deleteProperty"
  /\ ~last.threw
  /\ nextId = 2
  /\ Cardinality(store) = 1
  /\ \E row \in store :
       /\ row.city = Phoenix /\ row.street = MainSt
       /\ row.state = AZ /\ row.zipCode = Zip85001

(***************************************************************************)
(* Claims about createProperty with the synthetic snapshot.                *)
(***************************************************************************)
\* C30: with a mock key the lookup and the coordinate check cannot fail: for
\* every submission that passes validation the lookup returns a snapshot
\* without any HTTP request, its latitude and longitude strings parse to
\* finite numbers, and the insert is issued; createProperty fails only if
\* that insert is rejected (the store then staying as it was) and otherwise
\* returns the one record it added to the store.
C30_MockCreateFailsOnlyOnInsert ==
  [][(last'.op = "createProperty" /\ apiKey \in {"demo_key", "mock"}
        /\ ExpectedErrors(sanitizeInput(last'.args[1])) = <<>>) =>
       /\ last'.weather # <<>> /\ ~last'.weather[1].threw
       /\ NoHttpRequest(last')
       /\ IsFinite(parseFloat(last'.weather[1].value.location[1].lat))
       /\ IsFinite(parseFloat(last'.weather[1].value.location[1].lon))
       /\ Cardinality(CallsNamed(last', "prisma.property.create")) = 1
       /\ last'.threw <=> last'.rejected = <<"prisma.property.create">>
       /\ IF last'.threw
          THEN /\ store' = store
               /\ last'.message[1] = "Failed to create property: "
               /\ Tail(last'.message) \in DbFailures
          ELSE /\ last'.value # <<>>
               /\ store' \ store = {last'.value[1]}
               /\ store \subseteq store'
               /\ IsFinite(last'.value[1].lat) /\ IsFinite(last'.value[1].long)]_vars

\* a record persisted from the synthetic snapshot of a padded submission
C30_Witness ==
  /\ Created
  /\ apiKey = "mock"
  /\ ~last.threw
  /\ Submitted.city = Sp \o Phoenix \o Sp
  /\ Snapshot.location[1].lat = <<"4","1",".","3","2","1">>
  /\ Snapshot.location[1].lon = <<"-","1","0","5",".","6","7","9">>
  /\ last.value[1] \in store
  /\ last.value[1].lat = Finite(41321)
  /\ last.value[1].long = Finite(-105679)

(***************************************************************************)
(* Claims about the resolvers.                                             *)
(***************************************************************************)
ErrorCodes ==
  {"PROPERTIES_FETCH_ERROR", "PROPERTY_FETCH_ERROR", "PROPERTY_NOT_FOUND",
   "PROPERTY_CREATE_ERROR", "PROPERTY_DELETE_ERROR"}

\* the code of the operation behind a resolver
OperationCode(op) ==
  CASE op = "Query.properties" -> "PROPERTIES_FETCH_ERROR"
    [] op = "Query.property" -> "PROPERTY_FETCH_ERROR"
    [] op = "Mutation.createProperty" -> "PROPERTY_CREATE_ERROR"
    [] op = "Mutation.deleteProperty" -> "PROPERTY_DELETE_ERROR"

ById(op) == op \in {"Query.property", "Mutation.deleteProperty"}

\* the service reports a missing record: null from getPropertyById, the
\* error 'Property not found' from deleteProperty
ReportsMissing(answer) ==
  \/ answer.op = "Query.property" /\ ~answer.service.threw
       /\ answer.service.value = <<>>
  \/ answer.op = "Mutation.deleteProperty" /\ answer.service.threw
       /\ answer.service.message = <<"Property not found">>

LookupFoundNone(run, table) ==
  /\ ~BlankId(run.args[1])
  /\ run.calls = <<LookupOf(run.args[1])>>
  /\ run.rejected = <<>>
  /\ RowsWithId(table, trim(run.args[1])) = {}

\* C28: deleteProperty fails with exactly 'Property not found' if and only if
\* its existence lookup returned no record; every failure thrown by the
\* storage lookup or by the storage delete is reported with the prefix
\* 'Failed to delete property: ', whatever the storage error's own message
\* (a storage error whose message is 'Property not found' included); and the
\* delete resolver yields PROPERTY_NOT_FOUND only when the lookup returned no
\* record.
C28_NotFoundOnlyForNoRecord ==
  [][last'.op = "deleteProperty" =>
       /\ (last'.threw /\ last'.message = <<"Property not found">>)
            <=> LookupFoundNone(last', store)
       /\ last'.rejected # <<>> =>
            /\ last'.threw
            /\ Len(last'.message) = 2
            /\ last'.message[1] = "Failed to delete property: "
       /\ (session'[Client].threw
             /\ session'[Client].error[1].code = "PROPERTY_NOT_FOUND")
            <=> LookupFoundNone(last', store)]_vars

(***************************************************************************)
(* Claims about concurrent deleteProperty calls.                           *)
(***************************************************************************)
\* client c has looked the record up, found it, and not yet issued the delete
AwaitingDelete(c) ==
  session[c].op = "Mutation.deleteProperty" /\ ~session[c].done

\* the identifier client c asked to delete, as the service uses it
TargetOf(c) == trim(session[c].args[1].id)

ReturnedTrue(c) ==
  /\ session[c].op = "Mutation.deleteProperty"
  /\ session[c].done
  /\ ~session[c].service.threw
  /\ session[c].service.value = <<TRUE>>

\* C26: the read-then-delete race. When two deleteProperty calls on the same
\* existing identifier have both run their existence lookup before either
\* storage delete, the call whose delete runs second (the record being gone
\* by then) fails with a generic 'Failed to delete property: ...' error, not
\* with 'Property not found', and its resolver answers PROPERTY_DELETE_ERROR,
\* although the record no longer exists.
C26_SecondDeleteFailsGenerically ==
  [][\A c \in Callers :
       (AwaitingDelete(c) /\ session'[c].done
          /\ RowsWithId(store, TargetOf(c)) = {}) =>
         /\ \E d \in Callers \ {c} : ReturnedTrue(d) /\ TargetOf(d) = TargetOf(c)
         /\ session'[c].service.threw
         /\ session'[c].service.calls =
              <<LookupOf(session[c].args[1].id), DeleteOf(session[c].args[1].id)>>
         /\ session'[c].service.rejected = <<"prisma.property.delete">>
         /\ Len(session'[c].service.message) = 2
         /\ session'[c].service.message[1] = "Failed to delete property: "
         /\ session'[c].service.message # <<"Property not found">>
         /\ session'[c].error[1].code = "PROPERTY_DELETE_ERROR"
         /\ store' = store]_vars

\* two clients deleted the same record, both lookups before either delete:
\* one returned true, the other failed on the table's missing-row rejection
C26_Witness ==
  \E c, d \in Callers :
    /\ c # d
    /\ ReturnedTrue(d)
    /\ TargetOf(d) = MakeId(1)
    /\ session[c].op = "Mutation.deleteProperty"
    /\ session[c].done
    /\ TargetOf(c) = MakeId(1)
    /\ session[c].service.message =
         <<"Failed to delete property: ", "Record to delete does not exist.">>
    /\ session[c].error[1].code = "PROPERTY_DELETE_ERROR"
    /\ RowsWithId(store, MakeId(1)) = {}

\* C27: for every interleaving of concurrent deleteProperty calls on the same
\* identifier, at most one call returns true, and once any call has returned
\* true the record is absent from the store.
C27_AtMostOneTrue ==
  \A c \in Callers :
    ReturnedTrue(c) =>
      /\ RowsWithId(store, TargetOf(c)) = {}
      /\ \A d \in Callers \ {c} : ReturnedTrue(d) => TargetOf(d) # TargetOf(c)

\* three clients on one record, all lookups before any delete: one true
C27_Witness ==
  /\ \A c \in Callers : session[c].done /\ TargetOf(c) = MakeId(1)
  /\ \A c \in Callers : Len(session[c].service.calls) = 2
  /\ Cardinality({c \in Callers : ReturnedTrue(c)}) = 1
  /\ Cardinality({c \in Callers : session[c].threw}) = MaxCallers - 1
  /\ store = {}

====
